---- MODULE Spec2Model ----
(***************************************************************************)
(* Script evaluation engine of python-bitcoinlib (bitcoin/core/            *)
(* scripteval.py): EvalScript, VerifyScript and VerifySignature.           *)
(*                                                                         *)
(* A script is a sequence of bytes (0..255), a stack value is a sequence   *)
(* of bytes, a stack is a sequence of stack values whose top is its last   *)
(* element, exactly as the Python lists of the source.                     *)
(***************************************************************************)
EXTENDS Integers, Sequences, FiniteSets, TLC

(***************************************************************************)
(* Limits of scripteval.py                                                 *)
(***************************************************************************)
nMaxNumSize == 4
MAX_SCRIPT_SIZE == 10000
MAX_SCRIPT_ELEMENT_SIZE == 520
MAX_SCRIPT_OPCODES == 201
MAX_STACK_ITEMS == 1000

(***************************************************************************)
(* Opcode values (bitcoin/core/script.py)                                  *)
(***************************************************************************)
OP_0 == 0
OP_PUSHDATA1 == 76
OP_PUSHDATA2 == 77
OP_PUSHDATA4 == 78
OP_1NEGATE == 79
OP_RESERVED == 80
OP_1 == 81
OP_2 == 82
OP_16 == 96
OP_NOP == 97
OP_IF == 99
OP_NOTIF == 100
OP_VERIF == 101
OP_VERNOTIF == 102
OP_ELSE == 103
OP_ENDIF == 104
OP_VERIFY == 105
OP_RETURN == 106
OP_TOALTSTACK == 107
OP_FROMALTSTACK == 108
OP_2DROP == 109
OP_2DUP == 110
OP_3DUP == 111
OP_2OVER == 112
OP_2ROT == 113
OP_2SWAP == 114
OP_IFDUP == 115
OP_DEPTH == 116
OP_DROP == 117
OP_DUP == 118
OP_NIP == 119
OP_OVER == 120
OP_PICK == 121
OP_ROLL == 122
OP_ROT == 123
OP_SWAP == 124
OP_TUCK == 125
OP_CAT == 126
OP_SUBSTR == 127
OP_LEFT == 128
OP_RIGHT == 129
OP_SIZE == 130
OP_INVERT == 131
OP_AND == 132
OP_OR == 133
OP_XOR == 134
OP_EQUAL == 135
OP_EQUALVERIFY == 136
OP_1ADD == 139
OP_1SUB == 140
OP_2MUL == 141
OP_2DIV == 142
OP_NEGATE == 143
OP_ABS == 144
OP_NOT == 145
OP_0NOTEQUAL == 146
OP_ADD == 147
OP_SUB == 148
OP_MUL == 149
OP_DIV == 150
OP_MOD == 151
OP_LSHIFT == 152
OP_RSHIFT == 153
OP_BOOLAND == 154
OP_BOOLOR == 155
OP_NUMEQUAL == 156
OP_NUMEQUALVERIFY == 157
OP_NUMNOTEQUAL == 158
OP_LESSTHAN == 159
OP_GREATERTHAN == 160
OP_LESSTHANOREQUAL == 161
OP_GREATERTHANOREQUAL == 162
OP_MIN == 163
OP_MAX == 164
OP_WITHIN == 165
OP_RIPEMD160 == 166
OP_SHA1 == 167
OP_SHA256 == 168
OP_HASH160 == 169
OP_HASH256 == 170
OP_CODESEPARATOR == 171
OP_CHECKSIG == 172
OP_CHECKSIGVERIFY == 173
OP_CHECKMULTISIG == 174
OP_CHECKMULTISIGVERIFY == 175
OP_NOP1 == 176
OP_NOP10 == 185

\* A set that leaves out the two conditionals that were never implemented
disabled_opcodesWithoutVerif ==
    {OP_CAT, OP_SUBSTR, OP_LEFT, OP_RIGHT, OP_INVERT, OP_AND,
     OP_OR, OP_XOR, OP_2MUL, OP_2DIV, OP_MUL, OP_DIV, OP_MOD,
     OP_LSHIFT, OP_RSHIFT}

disabled_opcodes ==
    {OP_VERIF, OP_VERNOTIF,
     OP_CAT, OP_SUBSTR, OP_LEFT, OP_RIGHT, OP_INVERT, OP_AND,
     OP_OR, OP_XOR, OP_2MUL, OP_2DIV, OP_MUL, OP_DIV, OP_MOD,
     OP_LSHIFT, OP_RSHIFT}

ISA_UNOP == {OP_1ADD, OP_1SUB, OP_NEGATE, OP_ABS, OP_NOT, OP_0NOTEQUAL}

ISA_BINOP ==
    {OP_ADD, OP_SUB, OP_BOOLAND, OP_BOOLOR, OP_NUMEQUAL, OP_NUMEQUALVERIFY,
     OP_NUMNOTEQUAL, OP_LESSTHAN, OP_GREATERTHAN, OP_LESSTHANOREQUAL,
     OP_GREATERTHANOREQUAL, OP_MIN, OP_MAX}

(***************************************************************************)
(* Python list helpers: s[-k] is the k-th element from the end.            *)
(***************************************************************************)
Top(s, k) == s[Len(s) + 1 - k]

PopN(s, k) == SubSeq(s, 1, Len(s) - k)

\* del s[-k]
DelTop(s, k) == SubSeq(s, 1, Len(s) - k) \o SubSeq(s, Len(s) - k + 2, Len(s))

\* s[-k] = v
SetTop(s, k, v) == [s EXCEPT ![Len(s) + 1 - k] = v]

Rep(v, n) == [j \in 1..n |-> v]

(***************************************************************************)
(* Numeric codec (bitcoin/core/bignum.py): little-endian sign-magnitude.   *)
(***************************************************************************)
RECURSIVE MagBytes(_)
MagBytes(m) == IF m = 0 THEN <<>> ELSE <<m % 256>> \o MagBytes(m \div 256)

\* The sign bit goes into the last byte of the magnitude b, or into one more
\* byte when that bit is taken
SignMag(b, neg) ==
    LET n == Len(b)
    IN  IF b[n] >= 128
        THEN b \o <<IF neg THEN 128 ELSE 0>>
        ELSE IF neg THEN [b EXCEPT ![n] = b[n] + 128] ELSE b

bn2vch(v) ==
    IF v = 0 THEN <<>>
    ELSE SignMag(MagBytes(IF v < 0 THEN 0 - v ELSE v), v < 0)

\* bn2vch(a + b) for a and b of up to 4 bytes each.  The sum of two such
\* numbers of the same sign can need 33 bits: its magnitude is added byte-wise,
\* the low byte first and the carry into the rest
AddVch(a, b) ==
    IF (a >= 0 /\ b <= 0) \/ (a <= 0 /\ b >= 0) THEN bn2vch(a + b)
    ELSE LET x == IF a < 0 THEN 0 - a ELSE a
             y == IF b < 0 THEN 0 - b ELSE b
             lo == (x % 256) + (y % 256)
             rest == (x \div 256) + (y \div 256) + (lo \div 256)
         IN  SignMag(<<lo % 256>> \o MagBytes(rest), a < 0)

RECURSIVE MagValue(_)
MagValue(b) == IF b = <<>> THEN 0 ELSE b[1] + 256 * MagValue(Tail(b))

vch2bn(s) ==
    IF s = <<>> THEN 0
    ELSE LET n == Len(s)
         IN  IF s[n] >= 128
             THEN 0 - MagValue([s EXCEPT ![n] = s[n] - 128])
             ELSE MagValue(s)

(***************************************************************************)
(* Script decoder (CScript.raw_iter of bitcoin/core/script.py).  i is the  *)
(* 0-based byte offset of the next instruction; byte i is s[i + 1].        *)
(* An instruction is [ok, sop, sop_data, sop_pc, next]; sop_data is None   *)
(* (hasdata = FALSE) for every opcode above OP_PUSHDATA4.                  *)
(***************************************************************************)
LenBytes(opcode) ==
    IF opcode < OP_PUSHDATA1 THEN 0
    ELSE IF opcode = OP_PUSHDATA1 THEN 1
    ELSE IF opcode = OP_PUSHDATA2 THEN 2
    ELSE 4

\* The n-byte little-endian number at s[from]; a number of 2^31 or more,
\* which no script is long enough to honour, reads as 2^31 - 1
RECURSIVE LittleEndian(_, _, _)
LittleEndian(s, from, n) ==
    IF n = 0 THEN 0
    ELSE IF n = 4 /\ s[from + 3] >= 128 THEN 2147483647
    ELSE s[from] + 256 * LittleEndian(s, from + 1, n - 1)

raw_iter(s, i) ==
    LET opcode == s[i + 1]
        j == i + 1
    IN  IF opcode > OP_PUSHDATA4
        THEN [ok |-> TRUE, sop |-> opcode, hasdata |-> FALSE, sop_data |-> <<>>,
              sop_pc |-> i, next |-> j]
        ELSE LET nl == LenBytes(opcode)
             IN  IF j + nl > Len(s)
                 THEN \* CScriptInvalidError: missing data length
                      [ok |-> FALSE, sop |-> opcode, hasdata |-> FALSE,
                       sop_data |-> <<>>, sop_pc |-> i, next |-> j]
                 ELSE LET datasize == IF nl = 0 THEN opcode
                                      ELSE LittleEndian(s, j + 1, nl)
                          k == j + nl
                      IN  IF datasize > Len(s) - k
                          THEN \* CScriptTruncatedPushDataError
                               [ok |-> FALSE, sop |-> opcode, hasdata |-> FALSE,
                                sop_data |-> <<>>, sop_pc |-> i, next |-> k]
                          ELSE [ok |-> TRUE, sop |-> opcode, hasdata |-> TRUE,
                                sop_data |-> SubSeq(s, k + 1, k + datasize),
                                sop_pc |-> i, next |-> k + datasize]

\* CScriptOp.encode_op_pushdata: the canonical push of a byte string
encode_op_pushdata(d) ==
    LET n == Len(d)
    IN  IF n < OP_PUSHDATA1 THEN <<n>> \o d
        ELSE IF n <= 255 THEN <<OP_PUSHDATA1, n>> \o d
        ELSE IF n <= 65535 THEN <<OP_PUSHDATA2, n % 256, n \div 256>> \o d
        ELSE <<OP_PUSHDATA4, n % 256, (n \div 256) % 256,
               (n \div 65536) % 256, n \div 16777216>> \o d

\* CScript.is_p2sh: HASH160 <20 bytes> EQUAL
is_p2sh(s) ==
    /\ Len(s) = 23
    /\ s[1] = OP_HASH160
    /\ s[2] = 20
    /\ s[23] = OP_EQUAL

\* CScript.is_push_only: every decoded opcode is at most OP_16.  A script
\* that does not decode raises instead; VerifyScript only asks after the
\* script has been evaluated to its end, so that case cannot arise there.
RECURSIVE is_push_only_from(_, _)
is_push_only_from(s, i) ==
    IF i >= Len(s) THEN TRUE
    ELSE LET d == raw_iter(s, i)
         IN  IF ~d.ok THEN FALSE
             ELSE IF d.sop > OP_16 THEN FALSE
             ELSE is_push_only_from(s, d.next)

is_push_only(s) == is_push_only_from(s, 0)

(***************************************************************************)
(* Errors.  cls is the Python exception class, msg identifies the raise.   *)
(***************************************************************************)
NoError == [cls |-> "none", msg |-> ""]

Err(cls, msg) == [cls |-> cls, msg |-> msg]

\* Classes that are typed validation failures (bitcoin.core.ValidationError)
TypedFailures ==
    {"EvalScriptError", "MissingOpArgumentsError", "VerifyOpFailedError",
     "VerifyScriptError", "VerifySignatureError"}

(***************************************************************************)
(* _CastToBool and _CastToBigNum                                           *)
(***************************************************************************)
\* A cast that takes negative zero for true
CastToBoolAnyNonZero(s) == \E k \in 1..Len(s) : s[k] # 0

_CastToBool(s) ==
    \E k \in 1..Len(s) :
        /\ s[k] # 0
        /\ \A j \in 1..(k - 1) : s[j] = 0
        /\ ~(k = Len(s) /\ s[k] = 128)

\* A cap that already refuses numbers of nMaxNumSize bytes
CastOverflowAtCap(s) == Len(s) >= nMaxNumSize

\* TRUE when _CastToBigNum raises 'CastToBigNum() : overflow'
CastOverflow(s) == Len(s) > nMaxNumSize

_CastToBigNum(s) == vch2bn(s)

(***************************************************************************)
(* External digests.  The real functions are outside the engine; they are  *)
(* modelled by a deterministic mixing function of the right output length. *)
(***************************************************************************)
RECURSIVE Pow31(_)
Pow31(e) ==
    IF e = 0 THEN 1
    ELSE LET h == Pow31(e \div 2)
         IN  (((h * h) % 32749) * (IF e % 2 = 1 THEN 31 ELSE 1)) % 32749

\* The polynomial sum of (s[k] + 1) * 31^(hi - k) for k in lo..hi, modulo 32749
RECURSIVE Mix(_, _, _)
Mix(s, lo, hi) ==
    IF lo > hi THEN 0
    ELSE IF lo = hi THEN s[lo] + 1
    ELSE LET mid == (lo + hi) \div 2
         IN  (Mix(s, lo, mid) * Pow31(hi - mid) + Mix(s, mid + 1, hi)) % 32749

Digest(tag, s, n) ==
    LET h == (tag * Pow31(Len(s)) + Mix(s, 1, Len(s))) % 32749
    IN  [j \in 1..n |-> IF j = 1 THEN h % 256
                        ELSE IF j = 2 THEN h \div 256
                        ELSE IF j = 3 THEN tag
                        ELSE 0]

Hash160(s) == Digest(160, s, 20)
Hash(s) == Digest(255, s, 32)
ripemd160(s) == Digest(16, s, 20)
sha1(s) == Digest(1, s, 20)
sha256(s) == Digest(2, s, 32)

(***************************************************************************)
(* bloom.py: CBloomFilter.  bitcoin.hash.MurmurHash3 is outside the        *)
(* module; it is modelled by a deterministic function of its 32-bit seed   *)
(* and the data.  32-bit quantities are pairs of 16-bit halves.            *)
(***************************************************************************)
MAX_BLOOM_FILTER_SIZE == 36000
MAX_HASH_FUNCS == 50

\* The floating-point numbers of __init__ are kept in fixed point, as limbs of
\* three decimal digits: <<w, f1, f2, ...>> is w + f1 / 1000 + f2 / 1000^2 + ...
\* A limb may exceed 999 until the carries are taken.
\* 1 / LN2SQUARED and LN2 to fifteen decimals
InverseLN2SQUARED == <<2, 81, 368, 981, 5, 607>>
LN2 == <<0, 693, 147, 180, 559, 945>>

\* -math.log(nFPRate) to fifteen decimals, for the rates 0.5, 0.1, 0.05, 0.01,
\* 0.001, 0.0001, 0.00001 and 0.000001
MinusLog(nFPRate) ==
    CASE nFPRate = <<0, 500>> -> <<0, 693, 147, 180, 559, 945>>
      [] nFPRate = <<0, 100>> -> <<2, 302, 585, 92, 994, 45>>
      [] nFPRate = <<0, 50>> -> <<2, 995, 732, 273, 553, 990>>
      [] nFPRate = <<0, 10>> -> <<4, 605, 170, 185, 988, 91>>
      [] nFPRate = <<0, 1>> -> <<6, 907, 755, 278, 982, 137>>
      [] nFPRate = <<0, 0, 100>> -> <<9, 210, 340, 371, 976, 182>>
      [] nFPRate = <<0, 0, 10>> -> <<11, 512, 925, 464, 970, 228>>
      [] nFPRate = <<0, 0, 1>> -> <<13, 815, 510, 557, 964, 274>>

Min(a, b) == IF a < b THEN a ELSE b

\* What the limbs from the k-th on carry into the limb before them
RECURSIVE Carry(_, _)
Carry(c, k) == IF k > Len(c) THEN 0 ELSE (c[k] + Carry(c, k + 1)) \div 1000

\* int(c)
Floor(c) == c[1] + Carry(c, 2)

\* a[i] * b[k + 1 - i] summed over the limbs i and above
RECURSIVE ProductAt(_, _, _, _)
ProductAt(a, b, k, i) ==
    IF i > Len(a) THEN 0
    ELSE (IF k + 1 - i \in 1..Len(b) THEN a[i] * b[k + 1 - i] ELSE 0)
         + ProductAt(a, b, k, i + 1)

\* a * b, the carries taken
Times(a, b) ==
    LET c == [k \in 1..(Len(a) + Len(b) - 1) |-> ProductAt(a, b, k, 1)]
    IN  [k \in 1..Len(c) |->
            IF k = 1 THEN Floor(c) ELSE (c[k] + Carry(c, k + 1)) % 1000]

\* n * a for an integer n
Scaled(n, a) == [k \in 1..Len(a) |-> n * a[k]]

RECURSIVE Pow2(_)
Pow2(k) == IF k = 0 THEN 1 ELSE 2 * Pow2(k - 1)

\* CBloomFilter(nElements, nFPRate, nTweak, nFlags).  Each of the rates above
\* asks for more than one bit per element, so MAX_BLOOM_FILTER_SIZE * 8
\* elements or more always reach the size limit.
CBloomFilter(nElements, nFPRate, nTweak, nFlags) ==
    LET limit == MAX_BLOOM_FILTER_SIZE * 8
        bits == IF nElements >= limit THEN limit
                ELSE Min(Floor(Scaled(nElements,
                                      Times(InverseLN2SQUARED, MinusLog(nFPRate)))),
                         limit)
        size == bits \div 8
    IN  [vData |-> Rep(0, size),
         nHashFuncs |-> Min(Floor(Scaled(size * 8, LN2)) \div nElements, MAX_HASH_FUNCS),
         nTweak |-> nTweak,
         nFlags |-> nFlags]

\* ((nHashNum * 0xFBA4C795) + nTweak) & 0xFFFFFFFF
Seed(nHashNum, nTweak) ==
    LET lo == nHashNum * 51093 + nTweak.lo
        hi == nHashNum * 64420 + nTweak.hi + lo \div 65536
    IN  [hi |-> hi % 65536, lo |-> lo % 65536]

MurmurHash3(seed, data) ==
    LET s == <<seed.hi \div 256, seed.hi % 256, seed.lo \div 256, seed.lo % 256>> \o data
    IN  Mix(s, 1, Len(s))

bloom_hash(f, nHashNum, vDataToHash) ==
    MurmurHash3(Seed(nHashNum, f.nTweak), vDataToHash) % (Len(f.vData) * 8)

\* byte & __bit_mask[k] is not zero
HasBit(byte, k) == (byte \div Pow2(k)) % 2 = 1

\* The bit indexes set in vData
BitsSet(vData) ==
    {n \in 0..(Len(vData) * 8 - 1) : HasBit(vData[n \div 8 + 1], n % 8)}

\* A bit store that assigns the mask to the byte instead of or-ing it in
SetBitOnly(vData, nIndex) ==
    [vData EXCEPT ![nIndex \div 8 + 1] = Pow2(nIndex % 8)]

\* vData[nIndex >> 3] |= __bit_mask[7 & nIndex]
SetBit(vData, nIndex) ==
    LET at == nIndex \div 8 + 1
        k == nIndex % 8
    IN  [vData EXCEPT ![at] = IF HasBit(@, k) THEN @ ELSE @ + Pow2(k)]

\* The loop of insert from hash function i on
RECURSIVE InsertFrom(_, _, _)
InsertFrom(f, elem, i) ==
    IF i >= f.nHashFuncs THEN f
    ELSE InsertFrom([f EXCEPT !.vData = SetBit(f.vData, bloom_hash(f, i, elem))],
                    elem, i + 1)

Full(f) == Len(f.vData) = 1 /\ f.vData[1] = 255

insert(f, elem) == IF Full(f) THEN f ELSE InsertFrom(f, elem, 0)

contains(f, elem) ==
    IF Full(f) THEN TRUE
    ELSE \A i \in 0..(f.nHashFuncs - 1) :
            HasBit(f.vData[bloom_hash(f, i, elem) \div 8 + 1], bloom_hash(f, i, elem) % 8)

(***************************************************************************)
(* stealthaddress: StealthAddress.__init__ on the payload that __new__ has  *)
(* decoded.  CPubKey.is_fullyvalid is outside the module; a key counts as   *)
(* valid when it starts with 2 or 3.                                        *)
(***************************************************************************)
MAX_SPEND_PUBKEYS == 15
REUSE_SCAN_FOR_SPEND_OPTION == 1

StealthAddressError(msg) == Err("StealthAddressError", msg)

\* self[i:j]
Slice(s, i, j) == SubSeq(s, i + 1, Min(j, Len(s)))

is_fullyvalid(pubkey) == Len(pubkey) = 33 /\ pubkey[1] \in {2, 3}

\* a < b for bytes
BytesLess(a, b) ==
    \/ \E i \in 1..Min(Len(a), Len(b)) :
            a[i] < b[i] /\ \A j \in 1..(i - 1) : a[j] = b[j]
    \/ Len(a) < Len(b) /\ \A j \in 1..Len(a) : a[j] = b[j]

\* sorted(keys) == keys
IsSorted(keys) == \A j \in 1..(Len(keys) - 1) : ~BytesLess(keys[j + 1], keys[j])

\* reuse_scan_for_spend: self[0] & REUSE_SCAN_FOR_SPEND_OPTION
reuse_scan_for_spend(s) == (s[1] \div REUSE_SCAN_FOR_SPEND_OPTION) % 2 = 1

\* prefix_length_in_bytes
prefix_length_in_bytes(prefix_length) ==
    prefix_length \div 8 + (IF prefix_length % 8 # 0 THEN 1 ELSE 0)

\* A duplicate check that looks among the spend pubkeys only
DuplicateAmongSpendOnly(reuse, scan_pubkey, spend_pubkeys) ==
    \E j \in 1..Len(spend_pubkeys) : \E k \in 1..(j - 1) : spend_pubkeys[k] = spend_pubkeys[j]

\* The duplicate check: a spend pubkey is already in all_spend_pubkeys, which
\* starts with the scan pubkey when it is reused
Duplicate(reuse, scan_pubkey, spend_pubkeys) ==
    \E j \in 1..Len(spend_pubkeys) :
        \/ reuse /\ spend_pubkeys[j] = scan_pubkey
        \/ \E k \in 1..(j - 1) : spend_pubkeys[k] = spend_pubkeys[j]

NotBuilt == [err |-> NoError, built |-> FALSE]

\* StealthAddress(s): the attributes of the object, or the exception in err
StealthAddress(s) ==
    LET Raise(msg) == [err |-> StealthAddressError(msg), built |-> FALSE] IN
    IF Len(s) < 1 THEN Raise("Stealth address truncated at options")
    ELSE
    LET scan_pubkey == Slice(s, 1, 34) IN
    IF Len(scan_pubkey) <= 32 THEN Raise("Stealth address truncated at scan_pubkey")
    ELSE IF Len(s) <= 34 THEN Raise("Stealth address truncated at n")
    ELSE
    LET n == s[35]
        spend_pubkeys == [j \in 1..n |-> Slice(s, 35 + 33 * (j - 1), 35 + 33 * j)]
        i == 35 + 33 * n
    IN
    IF \E j \in 1..n : Len(spend_pubkeys[j]) <= 32
    THEN Raise("Stealth address truncated at spend pubkeys")
    ELSE IF Len(s) <= i THEN Raise("Stealth address truncated at m")
    ELSE IF Len(s) <= i + 1 THEN Raise("Stealth address truncated at prefix_length")
    ELSE
    LET m == s[i + 1]
        prefix_length == s[i + 2]
        nbytes == prefix_length_in_bytes(prefix_length)
        prefix == Slice(s, i + 2, i + 2 + nbytes)
        reuse == reuse_scan_for_spend(s)
        all_spend_pubkeys ==
            {spend_pubkeys[j] : j \in 1..n} \cup (IF reuse THEN {scan_pubkey} ELSE {})
    IN
    IF nbytes > 0 /\ Len(prefix) <= nbytes - 1
    THEN Raise("Stealth address truncated at prefix")
    ELSE IF ~is_fullyvalid(scan_pubkey) THEN Raise("Invalid scan pubkey")
    ELSE IF \E j \in 1..n : ~is_fullyvalid(spend_pubkeys[j])
    THEN Raise("Invalid spend pubkey")
    ELSE IF ~IsSorted(spend_pubkeys)
    THEN Raise("Spend pubkeys not in canonical sorted order")
    ELSE IF Duplicate(reuse, scan_pubkey, spend_pubkeys)
    THEN Raise("Duplicate spend pubkey")
    ELSE IF all_spend_pubkeys = {} THEN Raise("No spend pubkeys specified!")
    ELSE IF Cardinality(all_spend_pubkeys) > MAX_SPEND_PUBKEYS
    THEN Raise("Too many spend pubkeys")
    ELSE IF ~(0 < m /\ m <= Cardinality(all_spend_pubkeys))
    THEN Raise("m must be 0 < m <= # of spend pubkeys")
    ELSE [err |-> NoError, built |-> TRUE, scan_pubkey |-> scan_pubkey,
          spend_pubkeys |-> spend_pubkeys, all_spend_pubkeys |-> all_spend_pubkeys,
          m |-> m, prefix_length |-> prefix_length, prefix |-> prefix,
          reuse_scan_for_spend |-> reuse]

(***************************************************************************)
(* State                                                                   *)
(***************************************************************************)
VARIABLES
    api,            \* entry point called: EvalScript, VerifyScript, VerifySignature
    txFrom,         \* VerifySignature: [hash, vout]
    txTo,           \* [vin], each input [prevout |-> [hash, n], scriptSig]
    inIdx,
    scriptSig,      \* VerifyScript arguments
    scriptPubKey,
    flags,          \* set of SCRIPT_VERIFY_* markers
    sigOK,          \* key.verify: the <<sig, pubkey>> pairs that verify
    pc,             \* position in the call
    part,           \* the EvalScript call in progress: top, scriptSig, scriptPubKey, pubKey2
    scriptIn,       \* _EvalScript: the script being run
    ip,             \* raw_iter: byte offset of the next instruction
    stack,          \* the caller's stack (VerifyScript: its local stack)
    stackCopy,      \* VerifyScript: the P2SH snapshot
    altstack,
    vfExec,
    pbegincodehash,
    nOpCount,
    hashed,         \* scripts handed to RawSignatureHash so far
    evaluated,      \* scripts _EvalScript was entered with, in call order
    last,           \* the instruction just handled and the context it found
    raised,         \* the exception that ended the call, NoError otherwise
    threads,        \* two calls run by two threads: which one is running, the
                    \* arguments of both, the locals of the suspended one
    filter,         \* a CBloomFilter: vData, nHashFuncs, nTweak, nFlags
    asked,          \* the elements inserted so far and the last contains() answer
    address,        \* a StealthAddress: the payload given, the object built or
                    \* the exception raised
    matching        \* _CheckMultiSig called on its own: its locals i, ikey, isig,
                    \* keys_count, sigs_count, success, its position and the
                    \* depths of the stack it has read

vars == <<api, txFrom, txTo, inIdx, scriptSig, scriptPubKey, flags, sigOK, pc,
          part, scriptIn, ip, stack, stackCopy, altstack, vfExec,
          pbegincodehash, nOpCount, hashed, evaluated, last, raised, threads,
          filter, asked, address, matching>>

\* What no step of a call changes: its read-only arguments, the locals of a
\* call suspended in another thread, and the objects of the other modules
inputs == <<api, txFrom, txTo, inIdx, sigOK, threads, filter, asked, address,
            matching>>

SCRIPT_VERIFY_P2SH == "SCRIPT_VERIFY_P2SH"

\* No filter has been created
NoFilter == [vData |-> <<>>, nHashFuncs |-> 0, nTweak |-> [hi |-> 0, lo |-> 0], nFlags |-> 0]

\* inserted: the elements insert() was called with; elem, answer: the last
\* call of contains() and what it returned; known: elem had been inserted
\* No address has been asked for
NoAddress == [payload |-> <<>>, called |-> FALSE, result |-> NotBuilt]

NoneAsked == [inserted |-> {}, elem |-> <<>>, answer |-> TRUE, known |-> FALSE]

\* _CheckMultiSig has not been called on its own
NoMatching ==
    [at |-> "none", opcode |-> 0, script |-> <<>>, i |-> 0, ikey |-> 0, isig |-> 0,
     keys_count |-> 0, sigs_count |-> 0, success |-> TRUE, read |-> {}]

\* The list the running _EvalScript mutates: stackCopy for the P2SH redeem
\* script, the caller's stack otherwise.
CurStack == IF part = "pubKey2" THEN stackCopy ELSE stack

_CheckExec(vf) == \A k \in 1..Len(vf) : vf[k]

(***************************************************************************)
(* Signature subsystem                                                     *)
(***************************************************************************)
RECURSIVE Replace(_, _, _)
Replace(s, pat, k) ==
    IF k + Len(pat) - 1 > Len(s) THEN SubSeq(s, k, Len(s))
    ELSE IF SubSeq(s, k, k + Len(pat) - 1) = pat
         THEN Replace(s, pat, k + Len(pat))
         ELSE <<s[k]>> \o Replace(s, pat, k + 1)

_FindAndDelete(script, sig) == Replace(script, encode_op_pushdata(sig), 1)

\* key.verify(RawSignatureHash(script, txTo, inIdx, hashtype), sig)
_CheckSig(sig, pubkey, script) ==
    IF Len(sig) = 0 THEN FALSE ELSE <<sig, pubkey>> \in sigOK

\* The executing script from the last CODESEPARATOR offset on
CodeFrom(script, begin) == SubSeq(script, begin + 1, Len(script))

\* The signatures k .. sigs_count - 1 (counted from depth isig) cut out of the
\* script one after another, the first half of them and then the rest
RECURSIVE DeleteSigs(_, _, _, _, _)
DeleteSigs(script, st, isig, k, sigs_count) ==
    IF k >= sigs_count THEN script
    ELSE IF k + 1 = sigs_count THEN _FindAndDelete(script, Top(st, isig + k))
    ELSE LET mid == (k + sigs_count) \div 2
             cut == DeleteSigs(script, st, isig, k, mid)
         IN  IF cut = <<>> THEN cut
             ELSE DeleteSigs(cut, st, isig, mid, sigs_count)

\* A matching that lets every signature look through all the keys
MatchSigsAnyOrder(st, script, isig, ikey, sigs_count, keys_count) ==
    \A j \in 0..(sigs_count - 1) : \E k \in 0..(keys_count - 1) :
        _CheckSig(Top(st, isig + j), Top(st, ikey + k), script)

\* The matching loop of _CheckMultiSig; returns success
RECURSIVE MatchSigs(_, _, _, _, _, _)
MatchSigs(st, script, isig, ikey, sigs_count, keys_count) ==
    IF sigs_count > 0
    THEN LET ok == _CheckSig(Top(st, isig), Top(st, ikey), script)
             isig2 == IF ok THEN isig + 1 ELSE isig
             sigs2 == IF ok THEN sigs_count - 1 ELSE sigs_count
         IN  IF sigs2 > keys_count - 1 THEN FALSE
             ELSE MatchSigs(st, script, isig2, ikey + 1, sigs2, keys_count - 1)
    ELSE TRUE

\* Whether the loop calls RawSignatureHash at all: its first signature
\* check does unless that signature is empty, and so on down the list
RECURSIVE MatchHashes(_, _, _, _, _, _)
MatchHashes(st, script, isig, ikey, sigs_count, keys_count) ==
    IF sigs_count > 0
    THEN LET ok == _CheckSig(Top(st, isig), Top(st, ikey), script)
             isig2 == IF ok THEN isig + 1 ELSE isig
             sigs2 == IF ok THEN sigs_count - 1 ELSE sigs_count
         IN  \/ Len(Top(st, isig)) # 0
             \/ /\ sigs2 <= keys_count - 1
                /\ MatchHashes(st, script, isig2, ikey + 1, sigs2, keys_count - 1)
    ELSE FALSE

\* The number of times the matching loop runs its body
RECURSIVE MatchIterations(_, _, _, _, _, _)
MatchIterations(st, script, isig, ikey, sigs_count, keys_count) ==
    IF sigs_count > 0
    THEN LET ok == _CheckSig(Top(st, isig), Top(st, ikey), script)
             isig2 == IF ok THEN isig + 1 ELSE isig
             sigs2 == IF ok THEN sigs_count - 1 ELSE sigs_count
         IN  IF sigs2 > keys_count - 1 THEN 1
             ELSE 1 + MatchIterations(st, script, isig2, ikey + 1, sigs2, keys_count - 1)
    ELSE 0

\* Raising ArgumentsInvalidError runs super(MissingOpArgumentsError, self)
\* on an object that is no MissingOpArgumentsError: Python raises TypeError.
ArgumentsInvalidError(msg) == Err("TypeError", msg)

_CheckMultiSig(opcode, script, st) ==
    LET R0 == [stack |-> st, err |-> NoError, hashed |-> {}]
    IN
    IF Len(st) < 1
    THEN [R0 EXCEPT !.err = Err("MissingOpArgumentsError", "CHECKMULTISIG")]
    ELSE IF CastOverflow(Top(st, 1))
    THEN [R0 EXCEPT !.err = Err("EvalScriptError", "CastToBigNum() : overflow")]
    ELSE
    LET keys_count == _CastToBigNum(Top(st, 1)) IN
    IF keys_count < 0 \/ keys_count > 20
    THEN [R0 EXCEPT !.err = ArgumentsInvalidError("keys count invalid")]
    ELSE
    LET ikey == 2
        i1 == 2 + keys_count
    IN
    IF Len(st) < i1
    THEN [R0 EXCEPT !.err = ArgumentsInvalidError("not enough keys on stack")]
    ELSE IF CastOverflow(Top(st, i1))
    THEN [R0 EXCEPT !.err = Err("EvalScriptError", "CastToBigNum() : overflow")]
    ELSE
    LET sigs_count == _CastToBigNum(Top(st, i1)) IN
    IF sigs_count < 0 \/ sigs_count > keys_count
    THEN [R0 EXCEPT !.err = ArgumentsInvalidError("sigs count invalid")]
    ELSE
    LET isig == i1 + 1
        i2 == isig + sigs_count
    IN
    IF Len(st) < i2
    THEN [R0 EXCEPT !.err = ArgumentsInvalidError("not enough sigs on stack")]
    ELSE
    LET script2 == DeleteSigs(script, st, isig, 0, sigs_count)
        success == MatchSigs(st, script2, isig, ikey, sigs_count, keys_count)
        h == IF MatchHashes(st, script2, isig, ikey, sigs_count, keys_count)
             THEN {script2} ELSE {}
    IN
    IF ~success /\ opcode = OP_CHECKMULTISIGVERIFY
    THEN \* with VERIFY bail now before we modify the stack
         [stack |-> st, err |-> Err("VerifyOpFailedError", "CHECKMULTISIGVERIFY"),
          hashed |-> h]
    ELSE IF opcode # OP_CHECKMULTISIG
    THEN \* assert opcode == OP_CHECKMULTISIG, after the pops
         [stack |-> PopN(st, i2), err |-> Err("AssertionError", "assert opcode == OP_CHECKMULTISIG"),
          hashed |-> h]
    ELSE [stack |-> Append(PopN(st, i2), IF success THEN <<1>> ELSE <<0>>),
          err |-> NoError, hashed |-> h]

(***************************************************************************)
(* Opcode effects.  B is the execution context before the instruction:     *)
(* [stack, altstack, vfExec, pbegincodehash, err, hashed]; the result is   *)
(* the context at the end of the instruction or at the raise.              *)
(***************************************************************************)
Missing == Err("MissingOpArgumentsError", "missing arguments")

Overflow == Err("EvalScriptError", "CastToBigNum() : overflow")

VerifyOpFailedError == Err("VerifyOpFailedError", "VERIFY failed")

BoolVch(b) == IF b THEN <<1>> ELSE <<0>>

long(b) == IF b THEN 1 ELSE 0

_UnaryOp(opcode, B) ==
    LET st == B.stack IN
    IF Len(st) < 1 THEN [B EXCEPT !.err = Missing]
    ELSE IF CastOverflow(Top(st, 1)) THEN [B EXCEPT !.err = Overflow]
    ELSE LET bn == _CastToBigNum(Top(st, 1))
             r == IF opcode = OP_NEGATE THEN 0 - bn
                  ELSE IF opcode = OP_ABS THEN (IF bn < 0 THEN 0 - bn ELSE bn)
                  ELSE IF opcode = OP_NOT THEN long(bn = 0)
                  ELSE long(bn # 0)
         IN  IF opcode = OP_1ADD
             THEN [B EXCEPT !.stack = Append(PopN(st, 1), AddVch(bn, 1))]
             ELSE IF opcode = OP_1SUB
             THEN [B EXCEPT !.stack = Append(PopN(st, 1), AddVch(bn, 0 - 1))]
             ELSE [B EXCEPT !.stack = Append(PopN(st, 1), bn2vch(r))]

_BinOp(opcode, B) ==
    LET st == B.stack IN
    IF Len(st) < 2 THEN [B EXCEPT !.err = Missing]
    ELSE IF CastOverflow(Top(st, 1)) \/ CastOverflow(Top(st, 2))
    THEN [B EXCEPT !.err = Overflow]
    ELSE LET bn2 == _CastToBigNum(Top(st, 1))
             bn1 == _CastToBigNum(Top(st, 2))
             bn == IF opcode = OP_BOOLAND THEN long(bn1 # 0 /\ bn2 # 0)
                   ELSE IF opcode = OP_BOOLOR THEN long(bn1 # 0 \/ bn2 # 0)
                   ELSE IF opcode = OP_NUMEQUAL THEN long(bn1 = bn2)
                   ELSE IF opcode = OP_NUMEQUALVERIFY THEN long(bn1 = bn2)
                   ELSE IF opcode = OP_NUMNOTEQUAL THEN long(bn1 # bn2)
                   ELSE IF opcode = OP_LESSTHAN THEN long(bn1 < bn2)
                   ELSE IF opcode = OP_GREATERTHAN THEN long(bn1 > bn2)
                   ELSE IF opcode = OP_LESSTHANOREQUAL THEN long(bn1 <= bn2)
                   ELSE IF opcode = OP_GREATERTHANOREQUAL THEN long(bn1 >= bn2)
                   ELSE IF opcode = OP_MIN THEN (IF bn1 < bn2 THEN bn1 ELSE bn2)
                   ELSE (IF bn1 > bn2 THEN bn1 ELSE bn2)
         IN  IF opcode = OP_NUMEQUALVERIFY
             THEN IF bn = 0 THEN [B EXCEPT !.err = VerifyOpFailedError]
                  ELSE [B EXCEPT !.stack = PopN(st, 2)]
             ELSE IF opcode = OP_ADD
             THEN [B EXCEPT !.stack = Append(PopN(st, 2), AddVch(bn1, bn2))]
             ELSE IF opcode = OP_SUB
             THEN [B EXCEPT !.stack = Append(PopN(st, 2), AddVch(bn1, 0 - bn2))]
             ELSE [B EXCEPT !.stack = Append(PopN(st, 2), bn2vch(bn))]

\* A push that looks at the size of its data only when it is executed
PushDataCheckedWhenExecuted(d, fExec, B) ==
    IF fExec /\ Len(d.sop_data) > MAX_SCRIPT_ELEMENT_SIZE
    THEN [B EXCEPT !.err = Err("EvalScriptError", "PUSHDATA too long")]
    ELSE IF fExec THEN [B EXCEPT !.stack = Append(B.stack, d.sop_data)]
    ELSE B

PushData(d, fExec, B) ==
    IF Len(d.sop_data) > MAX_SCRIPT_ELEMENT_SIZE
    THEN [B EXCEPT !.err = Err("EvalScriptError", "PUSHDATA too long")]
    ELSE IF fExec THEN [B EXCEPT !.stack = Append(B.stack, d.sop_data)]
    ELSE B

SmallInt(sop, B) ==
    [B EXCEPT !.stack = Append(B.stack, bn2vch(sop - (OP_1 - 1)))]

StackOps ==
    {OP_2DROP, OP_2DUP, OP_2OVER, OP_2ROT, OP_2SWAP, OP_3DUP, OP_DEPTH,
     OP_DROP, OP_DUP, OP_FROMALTSTACK, OP_IFDUP, OP_NIP, OP_OVER, OP_ROT,
     OP_SIZE, OP_SWAP, OP_TOALTSTACK, OP_TUCK}

\* Items check_args asks for
NeedArgs(sop) ==
    IF sop \in {OP_2ROT} THEN 6
    ELSE IF sop \in {OP_2OVER, OP_2SWAP} THEN 4
    ELSE IF sop \in {OP_3DUP, OP_ROT} THEN 3
    ELSE IF sop \in {OP_2DROP, OP_2DUP, OP_NIP, OP_OVER, OP_SWAP, OP_TUCK} THEN 2
    ELSE IF sop \in {OP_DEPTH, OP_FROMALTSTACK} THEN 0
    ELSE 1

StackOp(sop, B) ==
    LET st == B.stack
        n == Len(st)
    IN
    IF n < NeedArgs(sop) THEN [B EXCEPT !.err = Missing]
    ELSE IF sop = OP_2DROP THEN [B EXCEPT !.stack = PopN(st, 2)]
    ELSE IF sop = OP_2DUP THEN [B EXCEPT !.stack = st \o <<Top(st, 2), Top(st, 1)>>]
    ELSE IF sop = OP_2OVER THEN [B EXCEPT !.stack = st \o <<Top(st, 4), Top(st, 3)>>]
    ELSE IF sop = OP_2ROT
    THEN [B EXCEPT !.stack = DelTop(DelTop(st, 6), 5) \o <<Top(st, 6), Top(st, 5)>>]
    ELSE IF sop = OP_2SWAP
    THEN [B EXCEPT !.stack = PopN(st, 4) \o <<Top(st, 2), Top(st, 1), Top(st, 4), Top(st, 3)>>]
    ELSE IF sop = OP_3DUP
    THEN [B EXCEPT !.stack = st \o <<Top(st, 3), Top(st, 2), Top(st, 1)>>]
    ELSE IF sop = OP_DEPTH THEN [B EXCEPT !.stack = Append(st, bn2vch(n))]
    ELSE IF sop = OP_DROP THEN [B EXCEPT !.stack = PopN(st, 1)]
    ELSE IF sop = OP_DUP THEN [B EXCEPT !.stack = Append(st, Top(st, 1))]
    ELSE IF sop = OP_FROMALTSTACK
    THEN IF Len(B.altstack) < 1 THEN [B EXCEPT !.err = Missing]
         ELSE [B EXCEPT !.stack = Append(st, Top(B.altstack, 1)),
                        !.altstack = PopN(B.altstack, 1)]
    ELSE IF sop = OP_IFDUP
    THEN IF _CastToBool(Top(st, 1)) THEN [B EXCEPT !.stack = Append(st, Top(st, 1))]
         ELSE B
    ELSE IF sop = OP_NIP THEN [B EXCEPT !.stack = DelTop(st, 2)]
    ELSE IF sop = OP_OVER THEN [B EXCEPT !.stack = Append(st, Top(st, 2))]
    ELSE IF sop = OP_ROT
    THEN [B EXCEPT !.stack = PopN(st, 3) \o <<Top(st, 2), Top(st, 1), Top(st, 3)>>]
    ELSE IF sop = OP_SIZE THEN [B EXCEPT !.stack = Append(st, bn2vch(Len(Top(st, 1))))]
    ELSE IF sop = OP_SWAP
    THEN [B EXCEPT !.stack = PopN(st, 2) \o <<Top(st, 1), Top(st, 2)>>]
    ELSE IF sop = OP_TOALTSTACK
    THEN [B EXCEPT !.stack = PopN(st, 1), !.altstack = Append(B.altstack, Top(st, 1))]
    ELSE \* OP_TUCK: stack.insert(len(stack) - 2, vch)
         [B EXCEPT !.stack = PopN(st, 2) \o <<Top(st, 1), Top(st, 2), Top(st, 1)>>]

\* A CHECKMULTISIG that leaves the pad value on the stack
CheckMultiSigOpKeepsPad(sop, script, B) ==
    LET r == _CheckMultiSig(sop, CodeFrom(script, B.pbegincodehash), B.stack)
    IN  IF r.err # NoError
        THEN [B EXCEPT !.stack = r.stack, !.err = r.err, !.hashed = r.hashed]
        ELSE [B EXCEPT !.stack = Append(PopN(B.stack, Len(B.stack) - Len(r.stack)),
                                        Top(r.stack, 1)),
                       !.hashed = r.hashed]

CheckMultiSigOp(sop, script, B) ==
    LET r == _CheckMultiSig(sop, CodeFrom(script, B.pbegincodehash), B.stack)
    IN  [B EXCEPT !.stack = r.stack, !.err = r.err, !.hashed = r.hashed]

\* A CHECKSIG for which an empty signature is a hard failure
CheckSigOpEmptyFails(sop, script, B) ==
    LET st == B.stack IN
    IF Len(st) < 2 THEN [B EXCEPT !.err = Missing]
    ELSE LET vchPubKey == Top(st, 1)
             vchSig == Top(st, 2)
             tmpScript == _FindAndDelete(CodeFrom(script, B.pbegincodehash), vchSig)
             ok == _CheckSig(vchSig, vchPubKey, tmpScript)
             h == IF Len(vchSig) = 0 THEN {} ELSE {tmpScript}
         IN  IF Len(vchSig) = 0 \/ (~ok /\ sop = OP_CHECKSIGVERIFY)
             THEN [B EXCEPT !.err = VerifyOpFailedError, !.hashed = h]
             ELSE IF ok
             THEN IF sop # OP_CHECKSIGVERIFY
                  THEN [B EXCEPT !.stack = Append(PopN(st, 2), <<1>>), !.hashed = h]
                  ELSE [B EXCEPT !.stack = PopN(st, 2), !.hashed = h]
             ELSE [B EXCEPT !.stack = Append(PopN(st, 2), <<0>>), !.hashed = h]

CheckSigOp(sop, script, B) ==
    LET st == B.stack IN
    IF Len(st) < 2 THEN [B EXCEPT !.err = Missing]
    ELSE LET vchPubKey == Top(st, 1)
             vchSig == Top(st, 2)
             tmpScript == _FindAndDelete(CodeFrom(script, B.pbegincodehash), vchSig)
             ok == _CheckSig(vchSig, vchPubKey, tmpScript)
             h == IF Len(vchSig) = 0 THEN {} ELSE {tmpScript}
         IN  IF ~ok /\ sop = OP_CHECKSIGVERIFY
             THEN [B EXCEPT !.err = VerifyOpFailedError, !.hashed = h]
             ELSE IF ok
             THEN IF sop # OP_CHECKSIGVERIFY
                  THEN [B EXCEPT !.stack = Append(PopN(st, 2), <<1>>), !.hashed = h]
                  ELSE [B EXCEPT !.stack = PopN(st, 2), !.hashed = h]
             ELSE [B EXCEPT !.stack = Append(PopN(st, 2), <<0>>), !.hashed = h]

CodeSeparator(d, B) == [B EXCEPT !.pbegincodehash = d.sop_pc]

\* An ELSE that inverts every flag
ElseOpInvertsAll(B) ==
    IF Len(B.vfExec) = 0
    THEN [B EXCEPT !.err = Err("EvalScriptError", "ELSE found without prior IF")]
    ELSE [B EXCEPT !.vfExec = [k \in 1..Len(B.vfExec) |-> ~B.vfExec[k]]]

ElseOp(B) ==
    IF Len(B.vfExec) = 0
    THEN [B EXCEPT !.err = Err("EvalScriptError", "ELSE found without prior IF")]
    ELSE [B EXCEPT !.vfExec = SetTop(B.vfExec, 1, ~Top(B.vfExec, 1))]

EndifOp(B) ==
    IF Len(B.vfExec) = 0
    THEN [B EXCEPT !.err = Err("EvalScriptError", "ENDIF found without prior IF")]
    ELSE [B EXCEPT !.vfExec = PopN(B.vfExec, 1)]

\* An IF that pushes no flag when it is met in an unexecuted branch
IfOpSkipsFlag(sop, fExec, B) ==
    IF fExec
    THEN IF Len(B.stack) < 1 THEN [B EXCEPT !.err = Missing]
         ELSE LET val == _CastToBool(Top(B.stack, 1))
              IN  [B EXCEPT !.stack = PopN(B.stack, 1),
                            !.vfExec = Append(B.vfExec,
                                              IF sop = OP_NOTIF THEN ~val ELSE val)]
    ELSE B

IfOp(sop, fExec, B) ==
    IF fExec
    THEN IF Len(B.stack) < 1 THEN [B EXCEPT !.err = Missing]
         ELSE LET val == _CastToBool(Top(B.stack, 1))
              IN  [B EXCEPT !.stack = PopN(B.stack, 1),
                            !.vfExec = Append(B.vfExec,
                                              IF sop = OP_NOTIF THEN ~val ELSE val)]
    ELSE [B EXCEPT !.vfExec = Append(B.vfExec, FALSE)]

EqualOp(sop, B) ==
    LET st == B.stack IN
    IF Len(st) < 2 THEN [B EXCEPT !.err = Missing]
    ELSE IF sop = OP_EQUAL
    THEN [B EXCEPT !.stack = Append(PopN(st, 2), BoolVch(Top(st, 1) = Top(st, 2)))]
    ELSE IF Top(st, 1) = Top(st, 2) THEN [B EXCEPT !.stack = PopN(st, 2)]
         ELSE [B EXCEPT !.err = VerifyOpFailedError]

HashOps == {OP_HASH160, OP_HASH256, OP_RIPEMD160, OP_SHA1, OP_SHA256}

HashOp(sop, B) ==
    LET st == B.stack IN
    IF Len(st) < 1 THEN [B EXCEPT !.err = Missing]
    ELSE LET v == Top(st, 1)
             h == IF sop = OP_HASH160 THEN Hash160(v)
                  ELSE IF sop = OP_HASH256 THEN Hash(v)
                  ELSE IF sop = OP_RIPEMD160 THEN ripemd160(v)
                  ELSE IF sop = OP_SHA1 THEN sha1(v)
                  ELSE sha256(v)
         IN  [B EXCEPT !.stack = Append(PopN(st, 1), h)]

\* A ROLL that copies the item, as PICK does
PickRollBothCopy(sop, B) ==
    LET st == B.stack IN
    IF Len(st) < 2 THEN [B EXCEPT !.err = Missing]
    ELSE LET st1 == PopN(st, 1) IN
         IF CastOverflow(Top(st, 1)) THEN [B EXCEPT !.stack = st1, !.err = Overflow]
         ELSE LET n == _CastToBigNum(Top(st, 1)) IN
              IF n < 0 \/ n >= Len(st1)
              THEN [B EXCEPT !.stack = st1,
                             !.err = Err("EvalScriptError", "Argument out of bounds")]
              ELSE [B EXCEPT !.stack = Append(st1, Top(st1, n + 1))]

PickRoll(sop, B) ==
    LET st == B.stack IN
    IF Len(st) < 2 THEN [B EXCEPT !.err = Missing]
    ELSE LET st1 == PopN(st, 1) IN
         IF CastOverflow(Top(st, 1)) THEN [B EXCEPT !.stack = st1, !.err = Overflow]
         ELSE LET n == _CastToBigNum(Top(st, 1)) IN
              IF n < 0 \/ n >= Len(st1)
              THEN [B EXCEPT !.stack = st1,
                             !.err = Err("EvalScriptError", "Argument out of bounds")]
              ELSE LET vch == Top(st1, n + 1)
                   IN  IF sop = OP_ROLL
                       THEN [B EXCEPT !.stack = Append(DelTop(st1, n + 1), vch)]
                       ELSE [B EXCEPT !.stack = Append(st1, vch)]

ReturnOp(B) == [B EXCEPT !.err = Err("EvalScriptError", "OP_RETURN called")]

\* A VERIFY that pops its operand before it looks at it
VerifyOpPopsFirst(B) ==
    LET st == B.stack IN
    IF Len(st) < 1 THEN [B EXCEPT !.err = Missing]
    ELSE IF _CastToBool(Top(st, 1)) THEN [B EXCEPT !.stack = PopN(st, 1)]
    ELSE [B EXCEPT !.stack = PopN(st, 1), !.err = VerifyOpFailedError]

VerifyOp(B) ==
    LET st == B.stack IN
    IF Len(st) < 1 THEN [B EXCEPT !.err = Missing]
    ELSE IF _CastToBool(Top(st, 1)) THEN [B EXCEPT !.stack = PopN(st, 1)]
    ELSE [B EXCEPT !.err = VerifyOpFailedError]

WithinOp(B) ==
    LET st == B.stack IN
    IF Len(st) < 3 THEN [B EXCEPT !.err = Missing]
    ELSE IF CastOverflow(Top(st, 1)) \/ CastOverflow(Top(st, 2)) \/ CastOverflow(Top(st, 3))
    THEN [B EXCEPT !.err = Overflow]
    ELSE LET bn3 == _CastToBigNum(Top(st, 1))
             bn2 == _CastToBigNum(Top(st, 2))
             bn1 == _CastToBigNum(Top(st, 3))
         IN  [B EXCEPT !.stack = Append(PopN(st, 3), BoolVch(bn2 <= bn1 /\ bn1 < bn3))]

Unsupported(B) == [B EXCEPT !.err = Err("EvalScriptError", "unsupported opcode")]

(***************************************************************************)
(* The if/elif chain of the instruction loop: the branch an instruction    *)
(* takes, the conditions as the source writes them ("a and b or c" parses  *)
(* as "(a and b) or c").                                                   *)
(***************************************************************************)
Branch(sop, fExec) ==
    IF sop <= OP_PUSHDATA4 THEN "pushdata"
    ELSE IF fExec /\ (sop = OP_1NEGATE \/ (sop >= OP_1 /\ sop <= OP_16)) THEN "smallint"
    ELSE IF fExec /\ sop \in ISA_BINOP THEN "binop"
    ELSE IF fExec /\ sop \in ISA_UNOP THEN "unop"
    ELSE IF fExec /\ sop \in {OP_2DROP, OP_2DUP, OP_2OVER, OP_2ROT, OP_2SWAP, OP_3DUP}
    THEN "stackop"
    ELSE IF (fExec /\ sop = OP_CHECKMULTISIG) \/ sop = OP_CHECKMULTISIGVERIFY
    THEN "checkmultisig"
    ELSE IF (fExec /\ sop = OP_CHECKSIG) \/ sop = OP_CHECKSIGVERIFY THEN "checksig"
    ELSE IF fExec /\ sop = OP_CODESEPARATOR THEN "codeseparator"
    ELSE IF fExec /\ sop \in {OP_DEPTH, OP_DROP, OP_DUP} THEN "stackop"
    ELSE IF sop = OP_ELSE THEN "else"
    ELSE IF sop = OP_ENDIF THEN "endif"
    ELSE IF fExec /\ sop \in {OP_EQUAL, OP_EQUALVERIFY} THEN "equal"
    ELSE IF fExec /\ sop = OP_FROMALTSTACK THEN "stackop"
    ELSE IF fExec /\ sop \in {OP_HASH160, OP_HASH256} THEN "hash"
    ELSE IF sop = OP_IF \/ sop = OP_NOTIF THEN "if"
    ELSE IF fExec /\ sop \in {OP_IFDUP, OP_NIP} THEN "stackop"
    ELSE IF (fExec /\ sop = OP_NOP) \/ (sop >= OP_NOP1 /\ sop <= OP_NOP10) THEN "nop"
    ELSE IF fExec /\ sop = OP_OVER THEN "stackop"
    ELSE IF (fExec /\ sop = OP_PICK) \/ sop = OP_ROLL THEN "pickroll"
    ELSE IF fExec /\ sop = OP_RETURN THEN "return"
    ELSE IF fExec /\ sop = OP_RIPEMD160 THEN "hash"
    ELSE IF fExec /\ sop \in {OP_ROT, OP_SIZE} THEN "stackop"
    ELSE IF fExec /\ sop \in {OP_SHA1, OP_SHA256} THEN "hash"
    ELSE IF fExec /\ sop \in {OP_SWAP, OP_TOALTSTACK, OP_TUCK} THEN "stackop"
    ELSE IF fExec /\ sop = OP_VERIFY THEN "verify"
    ELSE IF fExec /\ sop = OP_WITHIN THEN "within"
    ELSE IF fExec THEN "unsupported"
    ELSE "none"

(***************************************************************************)
(* One pass of the instruction loop                                        *)
(***************************************************************************)
AtInstruction == pc = "loop" /\ ip < Len(scriptIn)

Ins == raw_iter(scriptIn, ip)

fExecNow == _CheckExec(vfExec)

\* A budget that charges only the opcodes of executed branches
CountedWhenExecuted(d) ==
    IF d.sop > OP_16 /\ fExecNow THEN nOpCount + 1 ELSE nOpCount

\* nOpCount after the budget accounting of instruction d
Counted(d) == IF d.sop > OP_16 THEN nOpCount + 1 ELSE nOpCount

\* The instruction decodes and passes the disabled and budget checks
Dispatched(name) ==
    /\ AtInstruction
    /\ Ins.ok
    /\ Ins.sop \notin disabled_opcodes
    /\ Counted(Ins) <= MAX_SCRIPT_OPCODES
    /\ Branch(Ins.sop, fExecNow) = name

Base ==
    [stack |-> CurStack, altstack |-> altstack, vfExec |-> vfExec,
     pbegincodehash |-> pbegincodehash, err |-> NoError, hashed |-> {}]

SetCurStack(st) ==
    IF part = "pubKey2"
    THEN stackCopy' = st /\ UNCHANGED stack
    ELSE stack' = st /\ UNCHANGED stackCopy

StackLimitError == Err("EvalScriptError", "max stack items limit reached")

\* A size check that already refuses a full stack
SizeCheckAtLimit(R) == Len(R.stack) + Len(R.altstack) >= MAX_STACK_ITEMS

\* The size check that ends an instruction
SizeCheck(R) == Len(R.stack) + Len(R.altstack) > MAX_STACK_ITEMS

\* What "last" holds when the step taken was not an instruction
NoInstr ==
    [sop |-> 0 - 1, sop_data |-> <<>>, fExec |-> TRUE, stack |-> <<>>,
     altstack |-> <<>>, vfExec |-> <<>>, pbegincodehash |-> 0, hashed |-> {}]

Found(d) ==
    [sop |-> d.sop, sop_data |-> d.sop_data, fExec |-> fExecNow, stack |-> CurStack,
     altstack |-> altstack, vfExec |-> vfExec, pbegincodehash |-> pbegincodehash,
     hashed |-> hashed]

\* An end of instruction that leaves the iterator where it was
CommitWithoutAdvance(R, d, sizeChecked) ==
    /\ SetCurStack(R.stack)
    /\ altstack' = R.altstack
    /\ vfExec' = R.vfExec
    /\ pbegincodehash' = R.pbegincodehash
    /\ hashed' = hashed \cup R.hashed
    /\ nOpCount' = Counted(d)
    /\ last' = Found(d)
    /\ ip' = ip
    /\ IF R.err # NoError
       THEN raised' = R.err /\ pc' = "done"
       ELSE IF sizeChecked /\ SizeCheck(R)
       THEN raised' = StackLimitError /\ pc' = "done"
       ELSE raised' = raised /\ pc' = pc
    /\ UNCHANGED <<inputs, scriptSig, scriptPubKey, flags, part, scriptIn, evaluated>>

\* End of the instruction whose effect gave context R0 (computed once); a data
\* push that was executed leaves the loop body by "continue" and skips the
\* size check.
Commit(R0, d, sizeChecked) ==
    \E R \in {R0} :
    /\ SetCurStack(R.stack)
    /\ altstack' = R.altstack
    /\ vfExec' = R.vfExec
    /\ pbegincodehash' = R.pbegincodehash
    /\ hashed' = hashed \cup R.hashed
    /\ nOpCount' = Counted(d)
    /\ last' = Found(d)
    /\ IF R.err # NoError
       THEN raised' = R.err /\ pc' = "done" /\ ip' = ip
       ELSE IF sizeChecked /\ SizeCheck(R)
       THEN raised' = StackLimitError /\ pc' = "done" /\ ip' = ip
       ELSE raised' = raised /\ pc' = pc /\ ip' = d.next
    /\ UNCHANGED <<inputs, scriptSig, scriptPubKey, flags, part, scriptIn, evaluated>>

\* An exception raised before the instruction has touched the context
Abort(e, n) ==
    /\ raised' = e
    /\ pc' = "done"
    /\ nOpCount' = n
    /\ last' = Found(Ins)
    /\ UNCHANGED <<inputs, scriptSig, scriptPubKey, flags, part, scriptIn, ip,
                   stack, stackCopy, altstack, vfExec, pbegincodehash, hashed,
                   evaluated>>

\* raw_iter raises CScriptInvalidError; EvalScript turns it into EvalScriptError
StepDecodeError ==
    /\ AtInstruction
    /\ ~Ins.ok
    /\ Abort(Err("EvalScriptError", "CScriptInvalidError"), nOpCount)

StepDisabled ==
    /\ AtInstruction
    /\ Ins.ok
    /\ Ins.sop \in disabled_opcodes
    /\ Abort(Err("EvalScriptError", "opcode is disabled"), nOpCount)

StepOpCount ==
    /\ AtInstruction
    /\ Ins.ok
    /\ Ins.sop \notin disabled_opcodes
    /\ Counted(Ins) > MAX_SCRIPT_OPCODES
    /\ Abort(Err("EvalScriptError", "max opcode count exceeded"), Counted(Ins))

StepPushData ==
    /\ Dispatched("pushdata")
    /\ LET R == PushData(Ins, fExecNow, Base)
       IN  Commit(R, Ins, ~fExecNow)

StepSmallInt == Dispatched("smallint") /\ Commit(SmallInt(Ins.sop, Base), Ins, TRUE)

StepBinOp == Dispatched("binop") /\ Commit(_BinOp(Ins.sop, Base), Ins, TRUE)

StepUnaryOp == Dispatched("unop") /\ Commit(_UnaryOp(Ins.sop, Base), Ins, TRUE)

StepStackOp == Dispatched("stackop") /\ Commit(StackOp(Ins.sop, Base), Ins, TRUE)

StepCheckMultiSig ==
    Dispatched("checkmultisig") /\ Commit(CheckMultiSigOp(Ins.sop, scriptIn, Base), Ins, TRUE)

StepCheckSig ==
    Dispatched("checksig") /\ Commit(CheckSigOp(Ins.sop, scriptIn, Base), Ins, TRUE)

StepCodeSeparator ==
    Dispatched("codeseparator") /\ Commit(CodeSeparator(Ins, Base), Ins, TRUE)

StepElse == Dispatched("else") /\ Commit(ElseOp(Base), Ins, TRUE)

StepEndif == Dispatched("endif") /\ Commit(EndifOp(Base), Ins, TRUE)

StepIf == Dispatched("if") /\ Commit(IfOp(Ins.sop, fExecNow, Base), Ins, TRUE)

StepEqual == Dispatched("equal") /\ Commit(EqualOp(Ins.sop, Base), Ins, TRUE)

StepHash == Dispatched("hash") /\ Commit(HashOp(Ins.sop, Base), Ins, TRUE)

StepNop == Dispatched("nop") /\ Commit(Base, Ins, TRUE)

StepPickRoll == Dispatched("pickroll") /\ Commit(PickRoll(Ins.sop, Base), Ins, TRUE)

StepReturn == Dispatched("return") /\ Commit(ReturnOp(Base), Ins, TRUE)

StepVerify == Dispatched("verify") /\ Commit(VerifyOp(Base), Ins, TRUE)

StepWithin == Dispatched("within") /\ Commit(WithinOp(Base), Ins, TRUE)

StepUnsupported == Dispatched("unsupported") /\ Commit(Unsupported(Base), Ins, TRUE)

\* fExec is false and no branch of the chain applies
StepNotExecuted == Dispatched("none") /\ Commit(Base, Ins, TRUE)

(***************************************************************************)
(* _EvalScript: entry and end of script                                    *)
(***************************************************************************)
Finish(e) ==
    /\ raised' = e
    /\ pc' = "done"

\* An entry that lets the previous call's context survive
EvalScriptEnterKeepsContext ==
    /\ pc = "_EvalScript"
    /\ evaluated' = Append(evaluated, scriptIn)
    /\ IF Len(scriptIn) > MAX_SCRIPT_SIZE
       THEN /\ Finish(Err("EvalScriptError", "script too large"))
            /\ UNCHANGED ip
       ELSE /\ ip' = 0
            /\ pc' = "loop"
            /\ raised' = raised
    /\ last' = NoInstr
    /\ UNCHANGED <<inputs, scriptSig, scriptPubKey, flags, part, scriptIn, stack,
                   stackCopy, hashed, altstack, vfExec, pbegincodehash, nOpCount>>

\* Every instruction of s from offset i on decodes
RECURSIVE DecodesFrom(_, _)
DecodesFrom(s, i) ==
    IF i >= Len(s) THEN TRUE
    ELSE LET d == raw_iter(s, i)
         IN  d.ok /\ DecodesFrom(s, d.next)

\* An entry that decodes the whole script before it runs any of it
EvalScriptEnterDecodesFirst ==
    /\ pc = "_EvalScript"
    /\ evaluated' = Append(evaluated, scriptIn)
    /\ IF Len(scriptIn) > MAX_SCRIPT_SIZE
       THEN /\ Finish(Err("EvalScriptError", "script too large"))
            /\ UNCHANGED <<altstack, vfExec, pbegincodehash, nOpCount, ip>>
       ELSE IF ~DecodesFrom(scriptIn, 0)
       THEN /\ Finish(Err("EvalScriptError", "CScriptInvalidError"))
            /\ UNCHANGED <<altstack, vfExec, pbegincodehash, nOpCount, ip>>
       ELSE /\ altstack' = <<>>
            /\ vfExec' = <<>>
            /\ pbegincodehash' = 0
            /\ nOpCount' = 0
            /\ ip' = 0
            /\ pc' = "loop"
            /\ raised' = raised
    /\ last' = NoInstr
    /\ UNCHANGED <<inputs, scriptSig, scriptPubKey, flags, part, scriptIn, stack,
                   stackCopy, hashed>>

EvalScriptEnter ==
    /\ pc = "_EvalScript"
    /\ evaluated' = Append(evaluated, scriptIn)
    /\ IF Len(scriptIn) > MAX_SCRIPT_SIZE
       THEN /\ Finish(Err("EvalScriptError", "script too large"))
            /\ UNCHANGED <<altstack, vfExec, pbegincodehash, nOpCount, ip>>
       ELSE /\ altstack' = <<>>
            /\ vfExec' = <<>>
            /\ pbegincodehash' = 0
            /\ nOpCount' = 0
            /\ ip' = 0
            /\ pc' = "loop"
            /\ raised' = raised
    /\ last' = NoInstr
    /\ UNCHANGED <<inputs, scriptSig, scriptPubKey, flags, part, scriptIn, stack,
                   stackCopy, hashed>>

\* An end of script that lets open conditionals pass
EndOfScriptUnchecked ==
    /\ pc = "loop"
    /\ ip >= Len(scriptIn)
    /\ pc' = "return"
    /\ last' = NoInstr
    /\ UNCHANGED <<inputs, scriptSig, scriptPubKey, flags, part, scriptIn, ip, stack,
                   stackCopy, altstack, vfExec, pbegincodehash, nOpCount, hashed,
                   evaluated, raised>>

EndOfScript ==
    /\ pc = "loop"
    /\ ip >= Len(scriptIn)
    /\ IF Len(vfExec) # 0
       THEN Finish(Err("EvalScriptError", "Unterminated IF/ELSE block"))
       ELSE pc' = "return" /\ raised' = raised
    /\ last' = NoInstr
    /\ UNCHANGED <<inputs, scriptSig, scriptPubKey, flags, part, scriptIn, ip, stack,
                   stackCopy, altstack, vfExec, pbegincodehash, nOpCount, hashed,
                   evaluated>>

\* EvalScript called directly returns to its caller
EvalScriptReturn ==
    /\ pc = "return"
    /\ part = "top"
    /\ pc' = "done"
    /\ last' = NoInstr
    /\ UNCHANGED <<inputs, scriptSig, scriptPubKey, flags, part, scriptIn, ip, stack,
                   stackCopy, altstack, vfExec, pbegincodehash, nOpCount, hashed,
                   evaluated, raised>>

(***************************************************************************)
(* VerifyScript                                                            *)
(***************************************************************************)
VerifyScript ==
    /\ pc = "VerifyScript"
    /\ stack' = <<>>
    /\ scriptIn' = scriptSig
    /\ part' = "scriptSig"
    /\ pc' = "_EvalScript"
    /\ last' = NoInstr
    /\ UNCHANGED <<inputs, scriptSig, scriptPubKey, flags, ip, stackCopy, altstack,
                   vfExec, pbegincodehash, nOpCount, hashed, evaluated, raised>>

\* A step between the two scripts that takes no snapshot
VerifyScriptAfterScriptSigNoSnapshot ==
    /\ pc = "return"
    /\ part = "scriptSig"
    /\ stackCopy' = stackCopy
    /\ scriptIn' = scriptPubKey
    /\ part' = "scriptPubKey"
    /\ pc' = "_EvalScript"
    /\ last' = NoInstr
    /\ UNCHANGED <<inputs, scriptSig, scriptPubKey, flags, ip, stack, altstack,
                   vfExec, pbegincodehash, nOpCount, hashed, evaluated, raised>>

VerifyScriptAfterScriptSig ==
    /\ pc = "return"
    /\ part = "scriptSig"
    /\ stackCopy' = IF SCRIPT_VERIFY_P2SH \in flags THEN stack ELSE stackCopy
    /\ scriptIn' = scriptPubKey
    /\ part' = "scriptPubKey"
    /\ pc' = "_EvalScript"
    /\ last' = NoInstr
    /\ UNCHANGED <<inputs, scriptSig, scriptPubKey, flags, ip, stack, altstack,
                   vfExec, pbegincodehash, nOpCount, hashed, evaluated, raised>>

\* A P2SH step that takes the redeem script and its arguments from the stack
\* as the scriptPubKey has left it
VerifyScriptAfterScriptPubKeyLateSnapshot ==
    /\ pc = "return"
    /\ part = "scriptPubKey"
    /\ IF Len(stack) = 0
       THEN /\ Finish(Err("VerifyScriptError", "scriptPubKey left an empty stack"))
            /\ UNCHANGED <<part, scriptIn, stackCopy>>
       ELSE IF ~_CastToBool(Top(stack, 1))
       THEN /\ Finish(Err("VerifyScriptError", "scriptPubKey returned false"))
            /\ UNCHANGED <<part, scriptIn, stackCopy>>
       ELSE IF SCRIPT_VERIFY_P2SH \in flags /\ is_p2sh(scriptPubKey)
       THEN IF ~is_push_only(scriptSig)
            THEN /\ Finish(Err("VerifyScriptError", "P2SH scriptSig not is_push_only()"))
                 /\ UNCHANGED <<part, scriptIn, stackCopy>>
            ELSE /\ scriptIn' = Top(stack, 1)
                 /\ stackCopy' = PopN(stack, 1)
                 /\ part' = "pubKey2"
                 /\ pc' = "_EvalScript"
                 /\ raised' = raised
       ELSE /\ pc' = "done"
            /\ raised' = raised
            /\ UNCHANGED <<part, scriptIn, stackCopy>>
    /\ last' = NoInstr
    /\ UNCHANGED <<inputs, scriptSig, scriptPubKey, flags, ip, stack, altstack,
                   vfExec, pbegincodehash, nOpCount, hashed, evaluated>>

\* A P2SH step that does not ask whether the scriptSig is push-only
VerifyScriptAfterScriptPubKeyAnyScriptSig ==
    /\ pc = "return"
    /\ part = "scriptPubKey"
    /\ IF Len(stack) = 0
       THEN /\ Finish(Err("VerifyScriptError", "scriptPubKey left an empty stack"))
            /\ UNCHANGED <<part, scriptIn, stackCopy>>
       ELSE IF ~_CastToBool(Top(stack, 1))
       THEN /\ Finish(Err("VerifyScriptError", "scriptPubKey returned false"))
            /\ UNCHANGED <<part, scriptIn, stackCopy>>
       ELSE IF SCRIPT_VERIFY_P2SH \in flags /\ is_p2sh(scriptPubKey)
       THEN IF Len(stackCopy) = 0
            THEN /\ Finish(Err("AssertionError", "assert len(stackCopy)"))
                 /\ UNCHANGED <<part, scriptIn, stackCopy>>
            ELSE /\ scriptIn' = Top(stackCopy, 1)
                 /\ stackCopy' = PopN(stackCopy, 1)
                 /\ part' = "pubKey2"
                 /\ pc' = "_EvalScript"
                 /\ raised' = raised
       ELSE /\ pc' = "done"
            /\ raised' = raised
            /\ UNCHANGED <<part, scriptIn, stackCopy>>
    /\ last' = NoInstr
    /\ UNCHANGED <<inputs, scriptSig, scriptPubKey, flags, ip, stack, altstack,
                   vfExec, pbegincodehash, nOpCount, hashed, evaluated>>

VerifyScriptAfterScriptPubKey ==
    /\ pc = "return"
    /\ part = "scriptPubKey"
    /\ IF Len(stack) = 0
       THEN /\ Finish(Err("VerifyScriptError", "scriptPubKey left an empty stack"))
            /\ UNCHANGED <<part, scriptIn, stackCopy>>
       ELSE IF ~_CastToBool(Top(stack, 1))
       THEN /\ Finish(Err("VerifyScriptError", "scriptPubKey returned false"))
            /\ UNCHANGED <<part, scriptIn, stackCopy>>
       ELSE IF SCRIPT_VERIFY_P2SH \in flags /\ is_p2sh(scriptPubKey)
       THEN IF ~is_push_only(scriptSig)
            THEN /\ Finish(Err("VerifyScriptError", "P2SH scriptSig not is_push_only()"))
                 /\ UNCHANGED <<part, scriptIn, stackCopy>>
            ELSE IF Len(stackCopy) = 0
            THEN /\ Finish(Err("AssertionError", "assert len(stackCopy)"))
                 /\ UNCHANGED <<part, scriptIn, stackCopy>>
            ELSE /\ scriptIn' = Top(stackCopy, 1)
                 /\ stackCopy' = PopN(stackCopy, 1)
                 /\ part' = "pubKey2"
                 /\ pc' = "_EvalScript"
                 /\ raised' = raised
       ELSE /\ pc' = "done"
            /\ raised' = raised
            /\ UNCHANGED <<part, scriptIn, stackCopy>>
    /\ last' = NoInstr
    /\ UNCHANGED <<inputs, scriptSig, scriptPubKey, flags, ip, stack, altstack,
                   vfExec, pbegincodehash, nOpCount, hashed, evaluated>>

\* A P2SH epilogue that accepts any non-empty stack
VerifyScriptAfterPubKey2Unchecked ==
    /\ pc = "return"
    /\ part = "pubKey2"
    /\ IF Len(stackCopy) = 0
       THEN Finish(Err("VerifyScriptError", "P2SH inner scriptPubKey left an empty stack"))
       ELSE pc' = "done" /\ raised' = raised
    /\ last' = NoInstr
    /\ UNCHANGED <<inputs, scriptSig, scriptPubKey, flags, part, scriptIn, ip, stack,
                   stackCopy, altstack, vfExec, pbegincodehash, nOpCount, hashed,
                   evaluated>>

VerifyScriptAfterPubKey2 ==
    /\ pc = "return"
    /\ part = "pubKey2"
    /\ IF Len(stackCopy) = 0
       THEN Finish(Err("VerifyScriptError", "P2SH inner scriptPubKey left an empty stack"))
       ELSE IF ~_CastToBool(Top(stackCopy, 1))
       THEN Finish(Err("VerifyScriptError", "P2SH inner scriptPubKey returned false"))
       ELSE pc' = "done" /\ raised' = raised
    /\ last' = NoInstr
    /\ UNCHANGED <<inputs, scriptSig, scriptPubKey, flags, part, scriptIn, ip, stack,
                   stackCopy, altstack, vfExec, pbegincodehash, nOpCount, hashed,
                   evaluated>>

(***************************************************************************)
(* VerifySignature                                                         *)
(***************************************************************************)
\* A linkage check that does not compare the transaction hash
LinkageErrorWithoutHash(from, to, idx) ==
    IF idx < 0 THEN Err("VerifySignatureError", "inIdx negative")
    ELSE IF idx >= Len(to.vin) THEN Err("VerifySignatureError", "inIdx >= len(txTo.vin)")
    ELSE LET txin == to.vin[idx + 1] IN
         IF txin.prevout.n < 0
         THEN Err("VerifySignatureError", "txin prevout.n negative")
         ELSE IF txin.prevout.n >= Len(from.vout)
         THEN Err("VerifySignatureError", "txin prevout.n >= len(txFrom.vout)")
         ELSE NoError

\* The linkage failure of (txFrom, txTo, inIdx), NoError when there is none
LinkageError(from, to, idx) ==
    IF idx < 0 THEN Err("VerifySignatureError", "inIdx negative")
    ELSE IF idx >= Len(to.vin) THEN Err("VerifySignatureError", "inIdx >= len(txTo.vin)")
    ELSE LET txin == to.vin[idx + 1] IN
         IF txin.prevout.n < 0
         THEN Err("VerifySignatureError", "txin prevout.n negative")
         ELSE IF txin.prevout.n >= Len(from.vout)
         THEN Err("VerifySignatureError", "txin prevout.n >= len(txFrom.vout)")
         ELSE IF txin.prevout.hash # from.hash
         THEN Err("VerifySignatureError", "prevout hash does not match txFrom")
         ELSE NoError

\* A VerifySignature that asks VerifyScript for the P2SH rule
VerifySignatureWithP2SH ==
    /\ pc = "VerifySignature"
    /\ LET e == LinkageError(txFrom, txTo, inIdx) IN
       IF e # NoError
       THEN /\ Finish(e)
            /\ UNCHANGED <<scriptSig, scriptPubKey, flags>>
       ELSE LET txin == txTo.vin[inIdx + 1]
                txout == txFrom.vout[txin.prevout.n + 1]
            IN  /\ scriptSig' = txin.scriptSig
                /\ scriptPubKey' = txout.scriptPubKey
                /\ flags' = {SCRIPT_VERIFY_P2SH}
                /\ pc' = "VerifyScript"
                /\ raised' = raised
    /\ last' = NoInstr
    /\ UNCHANGED <<inputs, part, scriptIn, ip, stack, stackCopy, altstack, vfExec,
                   pbegincodehash, nOpCount, hashed, evaluated>>

VerifySignature ==
    /\ pc = "VerifySignature"
    /\ LET e == LinkageError(txFrom, txTo, inIdx) IN
       IF e # NoError
       THEN /\ Finish(e)
            /\ UNCHANGED <<scriptSig, scriptPubKey, flags>>
       ELSE LET txin == txTo.vin[inIdx + 1]
                txout == txFrom.vout[txin.prevout.n + 1]
            IN  /\ scriptSig' = txin.scriptSig
                /\ scriptPubKey' = txout.scriptPubKey
                /\ flags' = {}
                /\ pc' = "VerifyScript"
                /\ raised' = raised
    /\ last' = NoInstr
    /\ UNCHANGED <<inputs, part, scriptIn, ip, stack, stackCopy, altstack, vfExec,
                   pbegincodehash, nOpCount, hashed, evaluated>>

(***************************************************************************)
(* Two threads, each inside its own call of EvalScript.  The locals of      *)
(* _EvalScript and the caller's stack belong to the call; a thread switch   *)
(* between two instructions suspends one call and resumes the other.        *)
(***************************************************************************)
\* The locals of the running call
Own ==
    [pc |-> pc, scriptIn |-> scriptIn, ip |-> ip, stack |-> stack,
     altstack |-> altstack, vfExec |-> vfExec, pbegincodehash |-> pbegincodehash,
     nOpCount |-> nOpCount, raised |-> raised]

\* The locals of a call of EvalScript(st, script) that has not started
Called(st, script) ==
    [pc |-> "_EvalScript", scriptIn |-> script, ip |-> 0, stack |-> st,
     altstack |-> <<>>, vfExec |-> <<>>, pbegincodehash |-> 0, nOpCount |-> 0,
     raised |-> NoError]

\* One thread only
NoThreads == [cur |-> 0, args |-> <<>>, other |-> Called(<<>>, <<>>)]

\* A thread switch that leaves the alt stack where it is, as if it were a
\* module-level list
SwitchSharingAltstack ==
    /\ threads.cur # 0
    /\ threads.other.pc # "done"
    /\ threads' = [threads EXCEPT !.cur = 3 - @, !.other = Own]
    /\ pc' = threads.other.pc
    /\ scriptIn' = threads.other.scriptIn
    /\ ip' = threads.other.ip
    /\ stack' = threads.other.stack
    /\ vfExec' = threads.other.vfExec
    /\ pbegincodehash' = threads.other.pbegincodehash
    /\ nOpCount' = threads.other.nOpCount
    /\ raised' = threads.other.raised
    /\ last' = NoInstr
    /\ UNCHANGED <<api, txFrom, txTo, inIdx, sigOK, filter, asked, address, matching, scriptSig,
                   scriptPubKey, flags, part, stackCopy, hashed, evaluated, altstack>>

\* The running call is suspended before its next instruction and the other
\* call resumes
Switch ==
    /\ threads.cur # 0
    /\ threads.other.pc # "done"
    /\ threads' = [threads EXCEPT !.cur = 3 - @, !.other = Own]
    /\ pc' = threads.other.pc
    /\ scriptIn' = threads.other.scriptIn
    /\ ip' = threads.other.ip
    /\ stack' = threads.other.stack
    /\ altstack' = threads.other.altstack
    /\ vfExec' = threads.other.vfExec
    /\ pbegincodehash' = threads.other.pbegincodehash
    /\ nOpCount' = threads.other.nOpCount
    /\ raised' = threads.other.raised
    /\ last' = NoInstr
    /\ UNCHANGED <<api, txFrom, txTo, inIdx, sigOK, filter, asked, address, matching, scriptSig,
                   scriptPubKey, flags, part, stackCopy, hashed, evaluated>>

(***************************************************************************)
(* The entry points as functions of their arguments: what a call returns   *)
(* or raises, computed by running the same instruction effects to the end  *)
(* of the script.                                                          *)
(***************************************************************************)
\* The effect of instruction d on context B, by the branch it takes
Exec(script, d, fExec, B) ==
    LET b == Branch(d.sop, fExec)
    IN  CASE b = "pushdata" -> PushData(d, fExec, B)
          [] b = "smallint" -> SmallInt(d.sop, B)
          [] b = "binop" -> _BinOp(d.sop, B)
          [] b = "unop" -> _UnaryOp(d.sop, B)
          [] b = "stackop" -> StackOp(d.sop, B)
          [] b = "checkmultisig" -> CheckMultiSigOp(d.sop, script, B)
          [] b = "checksig" -> CheckSigOp(d.sop, script, B)
          [] b = "codeseparator" -> CodeSeparator(d, B)
          [] b = "else" -> ElseOp(B)
          [] b = "endif" -> EndifOp(B)
          [] b = "equal" -> EqualOp(d.sop, B)
          [] b = "hash" -> HashOp(d.sop, B)
          [] b = "if" -> IfOp(d.sop, fExec, B)
          [] b = "pickroll" -> PickRoll(d.sop, B)
          [] b = "return" -> ReturnOp(B)
          [] b = "verify" -> VerifyOp(B)
          [] b = "within" -> WithinOp(B)
          [] b = "unsupported" -> Unsupported(B)
          [] OTHER -> B

\* One run of the loop body of _EvalScript.  S holds the offset of the next
\* instruction, the opcodes counted so far and the context; S.done says that
\* the loop was left, at the end of the script or by a raise.
_EvalScriptStep(script, S) ==
    LET B == S.B
        leave(X) == [S EXCEPT !.B = X, !.done = TRUE]
    IN
    IF S.done THEN S
    ELSE IF S.at >= Len(script)
    THEN IF Len(B.vfExec) # 0
         THEN leave([B EXCEPT !.err = Err("EvalScriptError", "Unterminated IF/ELSE block")])
         ELSE leave(B)
    ELSE LET d == raw_iter(script, S.at)
             fExec == _CheckExec(B.vfExec)
             m == IF d.sop > OP_16 THEN S.n + 1 ELSE S.n
         IN  IF ~d.ok
             THEN leave([B EXCEPT !.err = Err("EvalScriptError", "CScriptInvalidError")])
             ELSE IF d.sop \in disabled_opcodes
             THEN leave([B EXCEPT !.err = Err("EvalScriptError", "opcode is disabled")])
             ELSE IF m > MAX_SCRIPT_OPCODES
             THEN leave([B EXCEPT !.err = Err("EvalScriptError", "max opcode count exceeded")])
             ELSE LET R == Exec(script, d, fExec, B)
                      pushed == Branch(d.sop, fExec) = "pushdata" /\ fExec
                  IN  IF R.err # NoError THEN leave(R)
                      ELSE IF ~pushed /\ SizeCheck(R)
                      THEN leave([R EXCEPT !.err = StackLimitError])
                      ELSE [at |-> d.next, n |-> m, B |-> R, done |-> FALSE]

\* k runs of the loop body one after another, the first half of them and then
\* the rest
RECURSIVE _EvalScriptSteps(_, _, _)
_EvalScriptSteps(script, S, k) ==
    IF k <= 1 THEN _EvalScriptStep(script, S)
    ELSE LET half == _EvalScriptSteps(script, S, k \div 2)
         IN  IF half.done THEN half
             ELSE _EvalScriptSteps(script, half, k - (k \div 2))

\* The loop of _EvalScript from offset at, n opcodes counted so far: every
\* instruction takes at least one byte, so the loop is left within as many
\* runs of its body as bytes remain, and one more for the end of the script
_EvalScriptFrom(script, at, n, B) ==
    _EvalScriptSteps(script, [at |-> at, n |-> n, B |-> B, done |-> FALSE],
                     Len(script) - at + 1).B

\* EvalScript(stack, scriptIn, ...): the stack it leaves and what it raises
EvalScript(st, script) ==
    IF Len(script) > MAX_SCRIPT_SIZE
    THEN [stack |-> st, err |-> Err("EvalScriptError", "script too large")]
    ELSE LET R == _EvalScriptFrom(script, 0, 0,
                      [stack |-> st, altstack |-> <<>>, vfExec |-> <<>>,
                       pbegincodehash |-> 0, err |-> NoError, hashed |-> {}])
         IN  [stack |-> R.stack, err |-> R.err]

\* What VerifyScript(scriptSig, scriptPubKey, ..., flags) raises, NoError when
\* it returns
VerifyScriptOutcome(sig, pub, fl) ==
    LET A == EvalScript(<<>>, sig)
        B == EvalScript(A.stack, pub)
    IN  IF A.err # NoError THEN A.err
        ELSE IF B.err # NoError THEN B.err
        ELSE IF Len(B.stack) = 0
        THEN Err("VerifyScriptError", "scriptPubKey left an empty stack")
        ELSE IF ~_CastToBool(Top(B.stack, 1))
        THEN Err("VerifyScriptError", "scriptPubKey returned false")
        ELSE IF SCRIPT_VERIFY_P2SH \in fl /\ is_p2sh(pub)
        THEN IF ~is_push_only(sig)
             THEN Err("VerifyScriptError", "P2SH scriptSig not is_push_only()")
             ELSE IF Len(A.stack) = 0
             THEN Err("AssertionError", "assert len(stackCopy)")
             ELSE LET C == EvalScript(PopN(A.stack, 1), Top(A.stack, 1))
                  IN  IF C.err # NoError THEN C.err
                      ELSE IF Len(C.stack) = 0
                      THEN Err("VerifyScriptError",
                               "P2SH inner scriptPubKey left an empty stack")
                      ELSE IF ~_CastToBool(Top(C.stack, 1))
                      THEN Err("VerifyScriptError",
                               "P2SH inner scriptPubKey returned false")
                      ELSE NoError
        ELSE NoError

(***************************************************************************)
(* Calls explored.  A case is one call of an entry point with its          *)
(* arguments.                                                              *)
(***************************************************************************)
MaxDepth == 2       \* depth of the enumerated initial stacks
MaxCtlLen == 3      \* instructions of the enumerated control-flow scripts
MaxGrowLen == 2     \* instructions run on an almost full stack
Slack == 2          \* how far below the limits the long cases start
MaxKeys == 3        \* keys of the enumerated multisig calls
MaxSigs == 2        \* signatures of the enumerated multisig calls
MaxScriptSigLen == 2    \* instructions of the enumerated VerifyScript scriptSigs
MaxArgs == 1        \* pushes that precede the redeem script in a P2SH scriptSig
MaxVin == 2         \* inputs of the spending transaction
MaxVout == 2        \* outputs of the source transaction

NoTxFrom == [hash |-> 0, vout |-> <<>>]
NoTxTo == [vin |-> <<>>]

EvalCase(st, script, ok) ==
    [api |-> "EvalScript", stack |-> st, scriptIn |-> script, scriptSig |-> <<>>,
     scriptPubKey |-> <<>>, flags |-> {}, txFrom |-> NoTxFrom, txTo |-> NoTxTo,
     inIdx |-> 0, sigOK |-> ok]

VerifyCase(sig, pub, fl, ok) ==
    [api |-> "VerifyScript", stack |-> <<>>, scriptIn |-> <<>>, scriptSig |-> sig,
     scriptPubKey |-> pub, flags |-> fl, txFrom |-> NoTxFrom, txTo |-> NoTxTo,
     inIdx |-> 0, sigOK |-> ok]

SignatureCase(from, to, idx) ==
    [api |-> "VerifySignature", stack |-> <<>>, scriptIn |-> <<>>, scriptSig |-> <<>>,
     scriptPubKey |-> <<>>, flags |-> {}, txFrom |-> from, txTo |-> to,
     inIdx |-> idx, sigOK |-> {}]

RECURSIVE SeqsUpTo(_, _)
SeqsUpTo(n, S) ==
    IF n = 0 THEN {<<>>}
    ELSE LET T == SeqsUpTo(n - 1, S)
         IN  T \cup {Append(t, x) : t \in T, x \in S}

RECURSIVE Flatten(_)
Flatten(ss) == IF ss = <<>> THEN <<>> ELSE Head(ss) \o Flatten(Tail(ss))

\* Scripts of at most n instructions taken from the set I of encoded instructions
ScriptsUpTo(n, I) == {Flatten(ss) : ss \in SeqsUpTo(n, I)}

\* Stack values: zero, one, two, a five-byte number
Values == {<<>>, <<1>>, <<2>>, <<0, 0, 0, 0, 1>>}

DeepStack == <<(<<1>>), (<<2>>), (<<3>>), (<<4>>), (<<5>>), (<<6>>)>>

Stacks ==
    SeqsUpTo(MaxDepth, Values) \cup {SubSeq(DeepStack, 1, n) : n \in 3..6}

\* Every opcode that is not a data push, and three data pushes: OP_0, a
\* one-byte push and a PUSHDATA1 (the last two truncated when alone)
OneOps == {0, 1, OP_PUSHDATA1} \cup (OP_1NEGATE..(OP_NOP10 + 1)) \cup {255}

\* One instruction, executed or inside an unexecuted branch
OneOpCases(Start(_)) ==
    \/ \E st \in Stacks, op \in OneOps : Start(EvalCase(st, <<op>>, {}))
    \/ \E st \in SeqsUpTo(MaxDepth, {<<>>, <<1>>}) \cup {DeepStack}, op \in OneOps :
            Start(EvalCase(st, <<OP_0, OP_IF, op, OP_ENDIF>>, {}))

\* Control flow
CtlInstr == {<<OP_0>>, <<OP_1>>, <<OP_IF>>, <<OP_NOTIF>>, <<OP_ELSE>>, <<OP_ENDIF>>}

\* Nested conditionals, the inner one inside an unexecuted branch
NestedScripts ==
    {<<OP_1, OP_IF, OP_0, OP_IF, OP_ELSE, OP_ENDIF, OP_ENDIF>>,
     <<OP_0, OP_IF, OP_0, OP_IF, OP_ELSE, OP_ENDIF, OP_ELSE, OP_1, OP_ENDIF>>,
     <<OP_0, OP_NOTIF, OP_1, OP_ELSE, OP_2, OP_ENDIF, OP_ENDIF>>}

CtlCases(Start(_)) ==
    \E sc \in ScriptsUpTo(MaxCtlLen, CtlInstr) \cup NestedScripts :
        Start(EvalCase(<<>>, sc, {}))

\* Stack limit: a few instructions on a stack that is almost full, full or
\* (handed over by the caller) over the limit, and runs of pushes from empty
GrowInstr ==
    {<<OP_1>>, <<1, 7>>, <<OP_3DUP>>, <<OP_DUP>>, <<OP_TOALTSTACK>>, <<OP_NOP>>,
     <<OP_DROP>>, <<OP_0, OP_IF>>}

NearFull ==
    {Rep(<<1>>, n) : n \in (MAX_STACK_ITEMS - Slack)..(MAX_STACK_ITEMS + 1)}

StackLimitCases(Start(_)) ==
    \/ \E st \in NearFull, sc \in ScriptsUpTo(MaxGrowLen, GrowInstr) :
            Start(EvalCase(st, sc, {}))
    \/ \E op \in {OP_0, OP_1} :
            Start(EvalCase(<<>>, Rep(op, MAX_STACK_ITEMS + 1) \o <<OP_NOP>>, {}))

\* Opcode budget: scripts whose number of counted opcodes is around the limit
BudgetCounts == (MAX_SCRIPT_OPCODES - Slack)..(MAX_SCRIPT_OPCODES + 1)

BudgetScripts ==
    {Rep(OP_NOP, n) : n \in BudgetCounts}
    \cup {<<OP_1>> \o Rep(OP_DUP, n) : n \in BudgetCounts}
    \cup {<<OP_0, OP_IF>> \o Rep(OP_DUP, n - 2) \o <<OP_ENDIF>> : n \in BudgetCounts}
    \cup {<<OP_1, OP_IF>> \o Rep(OP_1, n) \o Rep(OP_DROP, n - 2) \o <<OP_ENDIF>> :
            n \in BudgetCounts}
    \cup {Rep(OP_NOP, n - 1) \o <<OP_CAT>> : n \in BudgetCounts}

BudgetCases(Start(_)) == \E sc \in BudgetScripts : Start(EvalCase(<<>>, sc, {}))

\* Push size and script size
PushLens == (MAX_SCRIPT_ELEMENT_SIZE - 1)..(MAX_SCRIPT_ELEMENT_SIZE + 1)

PushScripts ==
    {encode_op_pushdata(Rep(1, n)) : n \in PushLens}
    \cup {<<OP_0, OP_IF>> \o encode_op_pushdata(Rep(1, n)) \o <<OP_ENDIF>> : n \in PushLens}
    \cup {<<OP_1, OP_IF>> \o encode_op_pushdata(Rep(1, n)) \o <<OP_ENDIF>> : n \in PushLens}
    \cup {<<OP_PUSHDATA4, n % 256, n \div 256, 0, 0>> \o Rep(1, n) : n \in PushLens}
    \cup {<<OP_PUSHDATA2, n % 256, n \div 256>> \o Rep(1, n - 1) : n \in PushLens}

SizeScripts ==
    {<<OP_1, OP_RETURN>> \o Rep(OP_NOP, n - 2) :
        n \in (MAX_SCRIPT_SIZE - 1)..(MAX_SCRIPT_SIZE + 1)}
    \cup {<<OP_1, OP_IF>> \o Rep(OP_NOP, MAX_SCRIPT_SIZE - 1)}

SizeCases(Start(_)) ==
    \E sc \in PushScripts \cup SizeScripts : Start(EvalCase(<<>>, sc, {}))

\* Multisig: <pad> <sigs> <m> <keys> <n> under every verification relation
Key(k) == <<2, k>>
Sig(k) == <<48, k, 1>>

MultiSigStack(sigs, n) ==
    <<(<<>>)>> \o sigs \o <<bn2vch(Len(sigs))>> \o [k \in 1..n |-> Key(k)] \o <<bn2vch(n)>>

SigKeyPairs == {Sig(1), Sig(2)} \X {Key(1), Key(2), Key(3)}

MultiSigCases(Start(_)) ==
    \E sigs \in SeqsUpTo(MaxSigs, {Sig(1), Sig(2)}), n \in 0..MaxKeys :
        \/ \E ok \in SUBSET SigKeyPairs :
                Start(EvalCase(MultiSigStack(sigs, n), <<OP_CHECKMULTISIG>>, ok))
        \/ \E ok \in {{}, SigKeyPairs, {<<Sig(1), Key(1)>>, <<Sig(2), Key(2)>>}} :
                Start(EvalCase(MultiSigStack(sigs, n), <<OP_CHECKMULTISIGVERIFY>>, ok))

\* Arithmetic on the largest and the smallest 4-byte numbers, 1 and a 5-byte
\* number, followed by an instruction that consumes the result or does not
MaxNumDepth == 3

NumValues == {<<255, 255, 255, 127>>, <<255, 255, 255, 255>>, <<1>>, <<0, 0, 0, 0, 1>>}

NumScripts ==
    {<<OP_ADD>>, <<OP_SUB>>, <<OP_1ADD>>, <<OP_1SUB>>, <<OP_MAX>>, <<OP_WITHIN>>,
     <<OP_ADD, OP_1ADD>>, <<OP_ADD, OP_DUP>>, <<OP_ADD, OP_PICK>>, <<OP_ADD, OP_ROLL>>,
     <<OP_ADD, OP_1, OP_ADD>>, <<OP_ADD, OP_1, OP_1, OP_WITHIN>>,
     <<OP_ADD, OP_0, OP_PICK>>, <<OP_1SUB, OP_NEGATE>>}

\* Indices into three items: the top, the middle, the bottom, one too far and
\* a negative one
Indices == {<<>>, <<1>>, <<2>>, <<3>>, <<129>>}

NumCases(Start(_)) ==
    \/ \E st \in SeqsUpTo(MaxNumDepth, NumValues) \ {<<>>}, sc \in NumScripts :
            Start(EvalCase(st, sc, {}))
    \/ \E idx \in Indices, op \in {OP_PICK, OP_ROLL} :
            Start(EvalCase(<<(<<1>>), (<<2>>), (<<3>>), idx>>, <<op>>, {}))

\* Scripts that hold the signature they check: under its canonical push,
\* under a PUSHDATA1 push, twice, before a CODESEPARATOR, in the arguments of
\* a multisig, and checked from the stack by a script whose tail holds the
\* pattern around a copy of itself
PushKey(k) == encode_op_pushdata(Key(k))
PushSig(k) == encode_op_pushdata(Sig(k))
NonCanonicalSig(k) == <<OP_PUSHDATA1, 3>> \o Sig(k)

SigScripts ==
    {PushSig(1) \o PushKey(1) \o <<OP_CHECKSIG>>,
     NonCanonicalSig(1) \o PushKey(1) \o <<OP_CHECKSIG>>,
     <<OP_PUSHDATA2, 3, 0>> \o Sig(1) \o PushKey(1) \o <<OP_CHECKSIG>>,
     PushSig(1) \o PushSig(1) \o PushKey(1) \o <<OP_CHECKSIGVERIFY>>,
     PushSig(1) \o PushKey(1) \o <<OP_CODESEPARATOR, OP_CHECKSIG>>,
     PushSig(1) \o <<OP_CODESEPARATOR>> \o PushSig(1) \o PushKey(1) \o <<OP_CHECKSIG>>,
     PushSig(2) \o PushSig(1) \o PushKey(1) \o <<OP_CHECKSIG>>,
     <<1, 1, 1, 1, OP_CHECKSIG>>,
     <<OP_0>> \o PushSig(1) \o PushSig(2) \o <<OP_2>> \o PushKey(1) \o PushKey(2)
         \o <<OP_2, OP_CHECKMULTISIG>>,
     <<OP_0>> \o PushSig(1) \o NonCanonicalSig(2) \o <<OP_2>> \o PushKey(1) \o PushKey(2)
         \o <<OP_2, OP_CHECKMULTISIGVERIFY>>,
     <<OP_0, OP_0>> \o PushSig(1) \o <<OP_2>> \o PushKey(1) \o PushKey(2)
         \o <<OP_2, OP_CHECKMULTISIG>>}

SigScriptCases(Start(_)) ==
    \/ \E sc \in SigScripts, ok \in {{}, {<<Sig(1), Key(1)>>, <<Sig(2), Key(2)>>}} :
            Start(EvalCase(<<>>, sc, ok))
    \/ \E ok \in {{}, {<<(<<5, 6>>), Key(1)>>}} :
            Start(EvalCase(<<(<<5, 6>>), Key(1)>>,
                           <<OP_CHECKSIG, 2, 2, 5, 6, 5, 6>>, ok))

\* VerifyScript on scripts that end in a push cut short: after instructions
\* that succeed, after one that fails, inside an executed and an unexecuted
\* branch, in the scriptSig and in the scriptPubKey
TruncScripts ==
    {<<OP_1, OP_2, 1>>, <<OP_1, OP_DROP, OP_DROP, 2, 7>>, <<OP_1, OP_PUSHDATA1>>,
     <<OP_1, OP_IF, OP_2, OP_PUSHDATA2, 1>>, <<OP_0, OP_IF, OP_DROP, 2, 7>>,
     <<OP_1, OP_TOALTSTACK, OP_PUSHDATA4, 1, 0, 0, 0>>, <<OP_1, OP_CAT, 1>>}

TruncCases(Start(_)) ==
    \E sc \in TruncScripts :
        \/ Start(VerifyCase(sc, <<OP_1>>, {}, {}))
        \/ Start(VerifyCase(<<OP_2>>, sc, {}, {}))

\* Multisig and CHECKSIG with unusual arguments
OddStacks ==
    {<<(<<>>), (<<129>>)>>, <<(<<>>), (<<21>>)>>, <<(<<>>), (<<>>), Key(1), (<<1>>)>>,
     <<(<<>>), (<<129>>), Key(1), (<<1>>)>>, <<(<<>>), (<<2>>), Key(1), (<<1>>)>>,
     <<(<<>>), Sig(1), Key(1)>>, <<(<<>>), (<<>>), Key(1)>>, <<(<<>>), Sig(2), Key(1)>>,
     <<Sig(1), (<<1>>), Key(1), (<<1>>)>>, <<(<<>>), (<<>>), (<<1>>), Key(1), (<<1>>)>>,
     <<(<<>>), Sig(1), (<<1>>), Key(1), (<<1>>)>>,
     <<(<<7>>), (<<>>), Sig(1), (<<1>>), Key(1), (<<1>>)>>,
     <<(<<7>>), (<<8>>), (<<>>), (<<>>), (<<>>)>>,
     <<(<<>>), (<<>>), Sig(1), (<<2>>), Key(1), Key(2), (<<2>>)>>,
     <<(<<>>), Sig(1), (<<>>), (<<2>>), Key(1), Key(2), (<<2>>)>>}

OddScripts ==
    {<<OP_CHECKMULTISIG>>, <<OP_CHECKMULTISIGVERIFY>>, <<OP_CHECKSIG>>,
     <<OP_CHECKSIGVERIFY>>, <<OP_CODESEPARATOR, OP_CHECKSIG>>, <<OP_0, OP_IF,
     OP_CHECKSIGVERIFY, OP_ENDIF>>, <<OP_0, OP_IF, OP_CHECKMULTISIGVERIFY, OP_ENDIF>>,
     <<OP_0, OP_IF, OP_CHECKSIG, OP_CHECKMULTISIG, OP_ENDIF>>}

OddCases(Start(_)) ==
    \E st \in OddStacks, sc \in OddScripts, ok \in {{}, {<<Sig(1), Key(1)>>}} :
        Start(EvalCase(st, sc, ok))

\* VerifyScript: a scriptSig of a few instructions, a short scriptPubKey
ScriptSigInstr ==
    {<<OP_0>>, <<OP_1>>, <<1, 128>>, <<2, 0, 128>>, <<OP_TOALTSTACK>>, <<OP_IF>>}

PubKeyScripts ==
    {<<>>, <<OP_NOP>>, <<OP_DROP>>, <<OP_NOT>>, <<OP_VERIFY>>, <<OP_ENDIF>>,
     <<OP_FROMALTSTACK>>, <<OP_1>>, <<2, 0, 0>>, <<OP_1, OP_IF>>, <<OP_DEPTH>>, <<76>>}

VerifyCases(Start(_)) ==
    \E sig \in ScriptsUpTo(MaxScriptSigLen, ScriptSigInstr), pub \in PubKeyScripts,
       fl \in {{}, {SCRIPT_VERIFY_P2SH}} :
        Start(VerifyCase(sig, pub, fl, {}))

\* P2SH: the scriptPubKey commits to a redeem script, the scriptSig pushes
\* arguments and then a script
P2SHScript(h) == <<OP_HASH160, 20>> \o h \o <<OP_EQUAL>>

BigRedeem == encode_op_pushdata(Rep(0, MAX_SCRIPT_ELEMENT_SIZE - 3)) \o <<OP_DROP, OP_1>>

Redeems ==
    {<<>>, <<OP_1>>, <<OP_0>>, <<OP_DROP>>, <<OP_NOT>>, <<OP_IF>>, <<OP_ADD>>,
     <<OP_1NEGATE, OP_CHECKMULTISIG>>, <<OP_0, OP_0, OP_0, OP_CHECKMULTISIGVERIFY>>,
     <<OP_RETURN>>, <<1>>, <<OP_DEPTH>>, <<OP_VERIF>>, <<OP_1, OP_TOALTSTACK>>,
     <<OP_DUP, OP_DROP>>, <<OP_NOP>>, BigRedeem, Tail(BigRedeem)}

ArgPushes == {<<OP_0>>, <<OP_1>>, <<OP_2>>, <<1, 128>>, <<OP_RESERVED>>, <<OP_1NEGATE>>}

P2SHScriptSigs ==
    {args \o encode_op_pushdata(R) : args \in ScriptsUpTo(MaxArgs, ArgPushes), R \in Redeems}
    \cup {<<OP_NOP>> \o encode_op_pushdata(R) : R \in Redeems}
    \cup {<<OP_1, OP_DROP>> \o encode_op_pushdata(R) : R \in Redeems}
    \cup {encode_op_pushdata(R) \o <<OP_1>> : R \in Redeems}
    \cup {<<>>, <<OP_1>>}

P2SHCases(Start(_)) ==
    \E fl \in {{}, {SCRIPT_VERIFY_P2SH}} :
        \/ \E sig \in P2SHScriptSigs, R \in {<<OP_1>>, <<OP_DROP>>} :
                Start(VerifyCase(sig, P2SHScript(Hash160(R)), fl, {}))
        \/ \E args \in ScriptsUpTo(MaxArgs, ArgPushes), R \in Redeems :
                Start(VerifyCase(args \o encode_op_pushdata(R), P2SHScript(Hash160(R)),
                                 fl, {}))

\* VerifyScript on scripts that each use up their own opcode budget: n NOPs in
\* the scriptSig, in the scriptPubKey or in a P2SH redeem script
NopCounts == {MAX_SCRIPT_OPCODES, MAX_SCRIPT_OPCODES + 1}

OwnBudgetCases(Start(_)) ==
    \/ \E k \in NopCounts, m \in NopCounts :
            Start(VerifyCase(<<OP_1>> \o Rep(OP_NOP, k), Rep(OP_NOP, m), {}, {}))
    \/ \E k \in NopCounts :
            LET R == Rep(OP_NOP, k)
            IN  Start(VerifyCase(<<OP_1>> \o encode_op_pushdata(R),
                                 P2SHScript(Hash160(R)), {SCRIPT_VERIFY_P2SH}, {}))

\* VerifySignature: the source transaction has hash 1; the inputs of the
\* spending transaction name a transaction hash and an output index
TxOut(k) ==
    IF k = 1 THEN [scriptPubKey |-> <<OP_NOP>>]
    ELSE IF k = 2 THEN [scriptPubKey |-> P2SHScript(Hash160(<<OP_0>>))]
    ELSE [scriptPubKey |-> <<OP_NOT>>]

TxOuts == [k \in 1..MaxVout |-> TxOut(k)]

TxIns ==
    {[prevout |-> [hash |-> h, n |-> n], scriptSig |-> sig] :
        h \in {1, 2}, n \in (0 - 1)..MaxVout, sig \in {<<OP_1>>, <<OP_0>>, <<1, OP_0>>}}

OtherTxIn == [prevout |-> [hash |-> 1, n |-> 0], scriptSig |-> <<OP_2>>]

\* Spending transactions: the last input varies, the ones before it are fixed
TxVins == {<<>>} \cup {Rep(OtherTxIn, k - 1) \o <<txin>> : k \in 1..MaxVin, txin \in TxIns}

\* An input that spends the second output with a scriptSig that pushes the
\* redeem script after an opcode that is no push
NonPushTxIn == [prevout |-> [hash |-> 1, n |-> 1], scriptSig |-> <<OP_NOP, 1, OP_0>>]

SignatureCases(Start(_)) ==
    \/ \E nout \in 0..MaxVout, vin \in TxVins, idx \in (0 - 1)..MaxVin :
            Start(SignatureCase([hash |-> 1, vout |-> SubSeq(TxOuts, 1, nout)],
                                [vin |-> vin], idx))
    \/ Start(SignatureCase([hash |-> 1, vout |-> TxOuts], [vin |-> <<NonPushTxIn>>], 0))

\* The state at the call of case c, with t the other calls in progress
StartWith(c, t) ==
    /\ threads = t
    /\ filter = NoFilter
    /\ asked = NoneAsked
    /\ address = NoAddress
    /\ matching = NoMatching
    /\ api = c.api
    /\ txFrom = c.txFrom
    /\ txTo = c.txTo
    /\ inIdx = c.inIdx
    /\ scriptSig = c.scriptSig
    /\ scriptPubKey = c.scriptPubKey
    /\ flags = c.flags
    /\ sigOK = c.sigOK
    /\ pc = IF c.api = "EvalScript" THEN "_EvalScript" ELSE c.api
    /\ part = "top"
    /\ scriptIn = c.scriptIn
    /\ ip = 0
    /\ stack = c.stack
    /\ stackCopy = <<>>
    /\ altstack = <<>>
    /\ vfExec = <<>>
    /\ pbegincodehash = 0
    /\ nOpCount = 0
    /\ hashed = {}
    /\ evaluated = <<>>
    /\ last = NoInstr
    /\ raised = NoError

\* The state at the call of case c, made by the only thread
Start(c) == StartWith(c, NoThreads)

Init ==
    \/ OneOpCases(Start)
    \/ CtlCases(Start)
    \/ StackLimitCases(Start)
    \/ BudgetCases(Start)
    \/ SizeCases(Start)
    \/ MultiSigCases(Start)
    \/ OddCases(Start)
    \/ VerifyCases(Start)
    \/ P2SHCases(Start)
    \/ OwnBudgetCases(Start)
    \/ SignatureCases(Start)
    \/ NumCases(Start)
    \/ SigScriptCases(Start)
    \/ TruncCases(Start)

Next ==
    \/ VerifySignature
    \/ VerifyScript
    \/ VerifyScriptAfterScriptSig
    \/ VerifyScriptAfterScriptPubKey
    \/ VerifyScriptAfterPubKey2
    \/ EvalScriptEnter
    \/ EvalScriptReturn
    \/ EndOfScript
    \/ StepDecodeError
    \/ StepDisabled
    \/ StepOpCount
    \/ StepPushData
    \/ StepSmallInt
    \/ StepBinOp
    \/ StepUnaryOp
    \/ StepStackOp
    \/ StepCheckMultiSig
    \/ StepCheckSig
    \/ StepCodeSeparator
    \/ StepElse
    \/ StepEndif
    \/ StepIf
    \/ StepEqual
    \/ StepHash
    \/ StepNop
    \/ StepPickRoll
    \/ StepReturn
    \/ StepVerify
    \/ StepWithin
    \/ StepUnsupported
    \/ StepNotExecuted

Spec == Init /\ [][Next]_vars

(***************************************************************************)
(* Two calls of EvalScript in two threads                                  *)
(***************************************************************************)
MaxThreadLen == 2   \* instructions of the first thread's enumerated scripts

ThreadInstr == {<<OP_1>>, <<OP_TOALTSTACK>>, <<OP_IF>>}

\* The second thread's calls: one for each kind of step
ThreadCalls ==
    {[stack |-> <<>>, scriptIn |-> sc] :
        sc \in {<<1>>, <<OP_CAT>>, <<1, 5, OP_2, OP_TOALTSTACK>>,
                <<OP_2, OP_2, OP_ADD, OP_NOT>>, <<OP_2, OP_TOALTSTACK, OP_FROMALTSTACK>>,
                <<OP_0, OP_0, OP_0, OP_CHECKMULTISIG>>,
                <<OP_0, OP_IF, OP_DUP, OP_ELSE, OP_2, OP_ENDIF>>,
                <<OP_1, OP_NOTIF, OP_1, OP_ENDIF, OP_2>>,
                <<OP_1, OP_1, OP_EQUAL, OP_HASH160>>, <<OP_NOP, OP_2, OP_0, OP_PICK>>,
                <<OP_1, OP_RETURN>>, <<OP_1, OP_VERIFY>>,
                <<OP_1, OP_0, OP_2, OP_WITHIN>>, <<OP_1, 255>>}}
    \cup {[stack |-> <<Sig(1), Key(1)>>, scriptIn |-> <<OP_CODESEPARATOR, OP_CHECKSIG>>]}

InitThreads ==
    \/ \E sc \in ScriptsUpTo(MaxThreadLen, ThreadInstr), c \in ThreadCalls :
            StartWith(EvalCase(<<(<<1>>)>>, sc, {<<Sig(1), Key(1)>>}),
                      [cur |-> 1, args |-> <<[stack |-> <<(<<1>>)>>, scriptIn |-> sc], c>>,
                       other |-> Called(c.stack, c.scriptIn)])
    \/ LET a == [stack |-> <<>>, scriptIn |-> Rep(OP_NOP, MAX_SCRIPT_OPCODES + 1)]
           b == [stack |-> <<>>, scriptIn |-> <<OP_1, OP_TOALTSTACK>>]
       IN  StartWith(EvalCase(a.stack, a.scriptIn, {}),
                     [cur |-> 1, args |-> <<a, b>>, other |-> Called(b.stack, b.scriptIn)])

NextThreads ==
    \/ Switch
    \/ EvalScriptEnter
    \/ EvalScriptReturn
    \/ EndOfScript
    \/ StepDecodeError
    \/ StepDisabled
    \/ StepOpCount
    \/ StepPushData
    \/ StepSmallInt
    \/ StepBinOp
    \/ StepUnaryOp
    \/ StepStackOp
    \/ StepCheckMultiSig
    \/ StepCheckSig
    \/ StepCodeSeparator
    \/ StepElse
    \/ StepEndif
    \/ StepIf
    \/ StepEqual
    \/ StepHash
    \/ StepNop
    \/ StepPickRoll
    \/ StepReturn
    \/ StepVerify
    \/ StepWithin
    \/ StepUnsupported
    \/ StepNotExecuted

SpecThreads == InitThreads /\ [][NextThreads]_vars

(***************************************************************************)
(* A bloom filter and the calls made on it                                 *)
(***************************************************************************)
MaxElements == 3    \* nElements of the enumerated filters
MaxInserts == 3     \* distinct elements inserted into one filter

\* No call of the script engine is in progress
NoCall ==
    /\ api = "none" /\ txFrom = NoTxFrom /\ txTo = NoTxTo /\ inIdx = 0
    /\ scriptSig = <<>> /\ scriptPubKey = <<>> /\ flags = {} /\ sigOK = {}
    /\ pc = "done" /\ part = "top" /\ scriptIn = <<>> /\ ip = 0
    /\ stack = <<>> /\ stackCopy = <<>> /\ altstack = <<>> /\ vfExec = <<>>
    /\ pbegincodehash = 0 /\ nOpCount = 0 /\ hashed = {} /\ evaluated = <<>>
    /\ last = NoInstr /\ raised = NoError /\ threads = NoThreads
    /\ matching = NoMatching

\* nFPRate 0.1, 0.01 and 0.001
Rates == {<<0, 100>>, <<0, 10>>, <<0, 1>>}

\* nTweak 0 and 2147483649
Tweaks == {[hi |-> 0, lo |-> 0], [hi |-> 32768, lo |-> 1]}

Elems == {<<>>, <<0>>, <<255>>, <<0, 0>>, <<153, 16>>}

InitBloom ==
    /\ NoCall
    /\ address = NoAddress
    /\ asked = NoneAsked
    /\ \E n \in 1..MaxElements, r \in Rates, t \in Tweaks :
            filter = CBloomFilter(n, r, t, 1)

Insert ==
    \E elem \in Elems :
        /\ Cardinality(asked.inserted \cup {elem}) <= MaxInserts
        /\ filter' = insert(filter, elem)
        /\ asked' = [asked EXCEPT !.inserted = @ \cup {elem}]
        /\ UNCHANGED <<api, txFrom, txTo, inIdx, sigOK, threads, scriptSig,
                       scriptPubKey, flags, pc, part, scriptIn, ip, stack, stackCopy,
                       altstack, vfExec, pbegincodehash, nOpCount, hashed, evaluated,
                       last, raised, address, matching>>

Contains ==
    \E elem \in Elems :
        /\ asked' = [asked EXCEPT !.elem = elem, !.answer = contains(filter, elem),
                                  !.known = elem \in asked.inserted]
        /\ UNCHANGED <<api, txFrom, txTo, inIdx, sigOK, threads, scriptSig,
                       scriptPubKey, flags, pc, part, scriptIn, ip, stack, stackCopy,
                       altstack, vfExec, pbegincodehash, nOpCount, hashed, evaluated,
                       last, raised, filter, address, matching>>

NextBloom == Insert \/ Contains

SpecBloom == InitBloom /\ [][NextBloom]_vars

(***************************************************************************)
(* Stealth addresses built from payloads                                   *)
(***************************************************************************)
MaxSpend == 2       \* spend pubkeys of the enumerated payloads

PubKey(first, k) == <<first>> \o Rep(0, 31) \o <<k>>

\* Two valid keys and an invalid one
KeyPool == {PubKey(2, 1), PubKey(2, 2), PubKey(4, 1)}

Payload(options, scan, spends, m, prefix_length, prefix) ==
    <<options>> \o scan \o <<Len(spends)>> \o Flatten(spends)
        \o <<m, prefix_length>> \o prefix

Prefixes == {<<0>>, <<8, 7>>, <<9, 7, 1>>, <<1, 7, 1>>}

\* Complete payloads over few keys
SmallPayloads ==
    {Payload(o, scan, spends, m, pre[1], Tail(pre)) :
        o \in 0..3, scan \in KeyPool, spends \in SeqsUpTo(MaxSpend, KeyPool),
        m \in 0..(MaxSpend + 2), pre \in Prefixes}

\* Complete payloads around the limit on the number of spend pubkeys
ManyKeys(n) == [j \in 1..n |-> PubKey(2, j)]

ManyPayloads ==
    {Payload(o, scan, ManyKeys(n), m, 0, <<>>) :
        o \in {0, 1}, scan \in {PubKey(2, 1), PubKey(3, 1)},
        n \in (MAX_SPEND_PUBKEYS - 1)..(MAX_SPEND_PUBKEYS + 1),
        m \in {1, MAX_SPEND_PUBKEYS, MAX_SPEND_PUBKEYS + 1}}

\* A complete payload cut at every length
CutPayloads ==
    LET whole == Payload(1, PubKey(3, 1), <<PubKey(2, 1), PubKey(2, 2)>>, 2, 9, <<7, 1>>)
    IN  {SubSeq(whole, 1, k) : k \in 0..(Len(whole) - 1)}

InitStealth ==
    /\ NoCall
    /\ filter = NoFilter
    /\ asked = NoneAsked
    /\ \E s \in SmallPayloads \cup ManyPayloads \cup CutPayloads :
            address = [payload |-> s, called |-> FALSE, result |-> NotBuilt]

\* StealthAddress(s) is called on the payload
Construct ==
    /\ ~address.called
    /\ address' = [address EXCEPT !.called = TRUE, !.result = StealthAddress(address.payload)]
    /\ UNCHANGED <<api, txFrom, txTo, inIdx, sigOK, threads, scriptSig,
                   scriptPubKey, flags, pc, part, scriptIn, ip, stack, stackCopy,
                   altstack, vfExec, pbegincodehash, nOpCount, hashed, evaluated,
                   last, raised, filter, asked, matching>>

NextStealth == Construct

SpecStealth == InitStealth /\ [][NextStealth]_vars

(***************************************************************************)
(* _CheckMultiSig, one loop iteration at a time.  The stack holds           *)
(* <pad> <sig 1> .. <sig S> <S> <key 1> .. <key K> <K>; what key.verify     *)
(* answers is not known beforehand.                                         *)
(***************************************************************************)
MaxKeysCount == 20

MatchArgs(K, S) == MultiSigStack([j \in 1..S |-> Sig(j)], K)

\* The arguments alone, above another item, and without the pad
MatchStacks(K, S) ==
    {MatchArgs(K, S), <<(<<9>>)>> \o MatchArgs(K, S), Tail(MatchArgs(K, S))}

InitMultiSig ==
    /\ api = "_CheckMultiSig" /\ txFrom = NoTxFrom /\ txTo = NoTxTo /\ inIdx = 0
    /\ scriptSig = <<>> /\ scriptPubKey = <<>> /\ flags = {} /\ sigOK = {}
    /\ pc = "done" /\ part = "top" /\ ip = 0
    /\ stackCopy = <<>> /\ altstack = <<>> /\ vfExec = <<>>
    /\ pbegincodehash = 0 /\ nOpCount = 0 /\ hashed = {} /\ evaluated = <<>>
    /\ last = NoInstr /\ raised = NoError /\ threads = NoThreads
    /\ filter = NoFilter /\ asked = NoneAsked /\ address = NoAddress
    /\ \E K \in 0..MaxKeysCount, S \in 0..MaxKeysCount,
          op \in {OP_CHECKMULTISIG, OP_CHECKMULTISIGVERIFY} :
            /\ S <= K
            /\ stack \in MatchStacks(K, S)
            /\ scriptIn = <<op>>
            /\ matching = [NoMatching EXCEPT !.at = "call", !.opcode = op,
                                             !.script = <<op>>]

\* The call has raised e after reading the stack at the depths rd
MatchRaise(e, rd) ==
    /\ raised' = e
    /\ matching' = [matching EXCEPT !.at = "done", !.read = rd]

\* From the call to the loop: the counts are read and checked, the depth is
\* checked against them, the signatures are cut from the script
CheckMultiSigArgs ==
    /\ matching.at = "call"
    /\ IF Len(stack) < 1
       THEN MatchRaise(Err("MissingOpArgumentsError", "CHECKMULTISIG"), {})
       ELSE IF CastOverflow(Top(stack, 1)) THEN MatchRaise(Overflow, {1})
       ELSE
       LET keys_count == _CastToBigNum(Top(stack, 1))
           i1 == 2 + keys_count
       IN
       IF keys_count < 0 \/ keys_count > MaxKeysCount
       THEN MatchRaise(ArgumentsInvalidError("keys count invalid"), {1})
       ELSE IF Len(stack) < i1
       THEN MatchRaise(ArgumentsInvalidError("not enough keys on stack"), {1})
       ELSE IF CastOverflow(Top(stack, i1)) THEN MatchRaise(Overflow, {1, i1})
       ELSE
       LET sigs_count == _CastToBigNum(Top(stack, i1))
           isig == i1 + 1
           i2 == isig + sigs_count
       IN
       IF sigs_count < 0 \/ sigs_count > keys_count
       THEN MatchRaise(ArgumentsInvalidError("sigs count invalid"), {1, i1})
       ELSE IF Len(stack) < i2
       THEN MatchRaise(ArgumentsInvalidError("not enough sigs on stack"), {1, i1})
       ELSE /\ raised' = raised
            /\ matching' =
                [matching EXCEPT
                    !.at = "loop", !.i = i2, !.ikey = 2, !.isig = isig,
                    !.keys_count = keys_count, !.sigs_count = sigs_count,
                    !.success = TRUE,
                    !.script = DeleteSigs(matching.script, stack, isig, 0, sigs_count),
                    !.read = {1, i1} \cup {isig + k : k \in 0..(sigs_count - 1)}]
    /\ UNCHANGED <<api, txFrom, txTo, inIdx, sigOK, threads, filter, asked, address,
                   scriptSig, scriptPubKey, flags, pc, part, scriptIn, ip, stack,
                   stackCopy, altstack, vfExec, pbegincodehash, nOpCount, hashed,
                   evaluated, last>>

\* A loop body that goes on when more signatures than keys are left
MatchStepNoBail ==
    /\ matching.at = "loop"
    /\ matching.success /\ matching.sigs_count > 0
    /\ \E verified \in BOOLEAN :
        LET sig == Top(stack, matching.isig)
            ok == Len(sig) # 0 /\ verified
        IN  /\ hashed' = IF Len(sig) # 0 THEN hashed \cup {matching.script} ELSE hashed
            /\ raised' = raised
            /\ matching' =
                [matching EXCEPT
                    !.isig = IF ok THEN @ + 1 ELSE @,
                    !.sigs_count = IF ok THEN @ - 1 ELSE @,
                    !.ikey = @ + 1, !.keys_count = @ - 1,
                    !.read = @ \cup {matching.isig, matching.ikey}]
    /\ UNCHANGED <<api, txFrom, txTo, inIdx, sigOK, threads, filter, asked, address,
                   scriptSig, scriptPubKey, flags, pc, part, scriptIn, ip, stack,
                   stackCopy, altstack, vfExec, pbegincodehash, nOpCount, evaluated,
                   last>>

\* One run of the loop body: the signature and the key under the two
\* pointers are checked, the key pointer moves on, the signature pointer
\* moves on if the check succeeded, and the matching fails once more
\* signatures than keys are left
MatchStep ==
    /\ matching.at = "loop"
    /\ matching.success /\ matching.sigs_count > 0
    /\ \E verified \in BOOLEAN :
        LET sig == Top(stack, matching.isig)
            ok == Len(sig) # 0 /\ verified
            sigs2 == IF ok THEN matching.sigs_count - 1 ELSE matching.sigs_count
            keys2 == matching.keys_count - 1
            after == [matching EXCEPT
                        !.isig = IF ok THEN @ + 1 ELSE @,
                        !.sigs_count = sigs2,
                        !.ikey = @ + 1, !.keys_count = keys2,
                        !.success = ~(sigs2 > keys2),
                        !.read = @ \cup {matching.isig, matching.ikey}]
        IN  /\ hashed' = IF Len(sig) # 0 THEN hashed \cup {matching.script} ELSE hashed
            /\ IF sigs2 > keys2 /\ matching.opcode = OP_CHECKMULTISIGVERIFY
               THEN /\ raised' = Err("VerifyOpFailedError", "CHECKMULTISIGVERIFY")
                    /\ matching' = [after EXCEPT !.at = "done"]
               ELSE /\ raised' = raised
                    /\ matching' = after
    /\ UNCHANGED <<api, txFrom, txTo, inIdx, sigOK, threads, filter, asked, address,
                   scriptSig, scriptPubKey, flags, pc, part, scriptIn, ip, stack,
                   stackCopy, altstack, vfExec, pbegincodehash, nOpCount, evaluated,
                   last>>

\* After the loop: the i items are popped, the opcode is asserted to be
\* CHECKMULTISIG and the result is pushed
MatchEnd ==
    /\ matching.at = "loop"
    /\ ~(matching.success /\ matching.sigs_count > 0)
    /\ IF matching.opcode # OP_CHECKMULTISIG
       THEN /\ stack' = PopN(stack, matching.i)
            /\ raised' = Err("AssertionError", "assert opcode == OP_CHECKMULTISIG")
       ELSE /\ stack' = Append(PopN(stack, matching.i),
                               IF matching.success THEN <<1>> ELSE <<0>>)
            /\ raised' = raised
    /\ matching' = [matching EXCEPT !.at = "done", !.i = 0]
    /\ UNCHANGED <<api, txFrom, txTo, inIdx, sigOK, threads, filter, asked, address,
                   scriptSig, scriptPubKey, flags, pc, part, scriptIn, ip, stackCopy,
                   altstack, vfExec, pbegincodehash, nOpCount, hashed, evaluated, last>>

NextMultiSig == CheckMultiSigArgs \/ MatchStep \/ MatchEnd

SpecMultiSig == InitMultiSig /\ [][NextMultiSig]_vars

TypeOK ==
    /\ pc \in {"VerifySignature", "VerifyScript", "_EvalScript", "loop", "return", "done"}
    /\ part \in {"top", "scriptSig", "scriptPubKey", "pubKey2"}
    /\ raised.cls \in TypedFailures \cup {"none", "TypeError", "AssertionError"}

(***************************************************************************)
(* Properties                                                              *)
(***************************************************************************)
Total == Len(CurStack) + Len(altstack)

\* The step just taken handled an instruction
Handled == last.sop >= 0

\* C1: after every instruction that completes without error, data pushes
\* included, len(stack) + len(altstack) <= MAX_STACK_ITEMS: an instruction
\* that found the stacks within the limit never completes with them above it.
C1_BoundAfterEveryInstruction ==
    (/\ Handled
     /\ raised = NoError
     /\ Len(last.stack) + Len(last.altstack) <= MAX_STACK_ITEMS)
        => Total <= MAX_STACK_ITEMS

\* C2 as stated: when the run fails on the stack-size limit, the two stacks
\* together hold at most MAX_STACK_ITEMS items.
C2_FailsBeforeExceeding ==
    raised = StackLimitError => Total <= MAX_STACK_ITEMS

\* C2, amended: the stack-size failure is raised by the check that ends an
\* instruction, after the instruction has been applied to the caller's
\* stack: at the failure the run is over and the two stacks hold more than
\* MAX_STACK_ITEMS items, more than the instruction found when it found them
\* within the limit.
C2_FailsAfterExceeding ==
    raised = StackLimitError
        => /\ Handled
           /\ pc = "done"
           /\ Total > MAX_STACK_ITEMS
           /\ Len(last.stack) + Len(last.altstack) <= MAX_STACK_ITEMS
                => Total > Len(last.stack) + Len(last.altstack)

\* An instruction that grew a full stack has been refused
C2_Witness ==
    /\ raised = StackLimitError
    /\ Len(last.stack) + Len(last.altstack) = MAX_STACK_ITEMS
    /\ Total = MAX_STACK_ITEMS + 1

\* The instructions of script[1..upto] are single bytes: no byte announces
\* immediate data
PayloadFree(script, upto) ==
    \A k \in 1..upto : script[k] = OP_0 \/ script[k] > OP_PUSHDATA4

RECURSIVE DecodedAbove16(_, _, _)
DecodedAbove16(script, at, upto) ==
    IF at >= upto THEN 0
    ELSE LET d == raw_iter(script, at)
         IN  IF ~d.ok THEN 0
             ELSE (IF d.sop > OP_16 THEN 1 ELSE 0) + DecodedAbove16(script, d.next, upto)

\* The opcodes above OP_16 among the instructions that end at or before
\* offset upto, executed or not
OpcodesAbove16(script, upto) ==
    IF PayloadFree(script, upto)
    THEN Cardinality({k \in 1..upto : script[k] > OP_16})
    ELSE DecodedAbove16(script, 0, upto)

OpCountError == Err("EvalScriptError", "max opcode count exceeded")

\* C3: every decoded opcode above OP_16 is counted, executed or not, from 0
\* for each script; a run goes on while the count is at most
\* MAX_SCRIPT_OPCODES, and the opcode that brings it above fails the run
\* with the stacks and the conditional flags as it found them.
C3_OpcodeBudget ==
    /\ pc \in {"loop", "return"} =>
            /\ nOpCount = OpcodesAbove16(scriptIn, ip)
            /\ nOpCount <= MAX_SCRIPT_OPCODES
    /\ (pc = "done" /\ Handled) =>
            LET d == raw_iter(scriptIn, ip)
                n == OpcodesAbove16(scriptIn, ip) + (IF d.sop > OP_16 THEN 1 ELSE 0)
            IN  IF d.ok /\ d.sop \notin disabled_opcodes /\ n > MAX_SCRIPT_OPCODES
                THEN /\ raised = OpCountError
                     /\ n = MAX_SCRIPT_OPCODES + 1
                     /\ CurStack = last.stack
                     /\ altstack = last.altstack
                     /\ vfExec = last.vfExec
                ELSE raised # OpCountError
    /\ ~Handled => raised # OpCountError

\* The 202nd counted opcode lies in a branch that is not executed
C3_Witness ==
    /\ raised = OpCountError
    /\ ~last.fExec
    /\ OpcodesAbove16(scriptIn, ip) = MAX_SCRIPT_OPCODES

\* A script with exactly MAX_SCRIPT_OPCODES counted opcodes has succeeded
C3_ExactBudgetSucceeds ==
    /\ pc = "done"
    /\ raised = NoError
    /\ nOpCount = MAX_SCRIPT_OPCODES

\* The arguments of a multisig call on stack st:
\* <pad> <sig 1> .. <sig m> <m> <key 1> .. <key n> <n>, top last
KeysCount(st) == vch2bn(Top(st, 1))

SigsCount(st) == vch2bn(Top(st, KeysCount(st) + 2))

WellFormedMultiSig(st) ==
    /\ Len(st) >= 1
    /\ Len(Top(st, 1)) <= nMaxNumSize
    /\ KeysCount(st) \in 0..20
    /\ Len(st) >= KeysCount(st) + 2
    /\ Len(Top(st, KeysCount(st) + 2)) <= nMaxNumSize
    /\ SigsCount(st) \in 0..KeysCount(st)
    /\ Len(st) >= KeysCount(st) + SigsCount(st) + 3

KeysOf(st) == [j \in 1..KeysCount(st) |-> Top(st, KeysCount(st) + 2 - j)]

SigsOf(st) ==
    [j \in 1..SigsCount(st) |-> Top(st, KeysCount(st) + SigsCount(st) + 3 - j)]

\* The signatures can be matched to distinct keys in the order of the keys
Matchable(sigs, keys) ==
    \E f \in [1..Len(sigs) -> 1..Len(keys)] :
        /\ \A a, b \in 1..Len(sigs) : a < b => f[a] < f[b]
        /\ \A j \in 1..Len(sigs) : Len(sigs[j]) > 0 /\ <<sigs[j], keys[f[j]]>> \in sigOK

\* C4: an executed CHECKMULTISIG on well-formed arguments replaces them by
\* true exactly when the signatures can be matched to distinct keys in the
\* same relative order as the keys, whatever the checkSig relation.
C4_MultiSigOrder ==
    (/\ Handled
     /\ last.sop = OP_CHECKMULTISIG
     /\ last.fExec
     /\ WellFormedMultiSig(last.stack)
     /\ nOpCount <= MAX_SCRIPT_OPCODES
     /\ Len(last.stack) + Len(last.altstack) <= MAX_STACK_ITEMS)
        => /\ raised = NoError
           /\ CurStack =
                Append(PopN(last.stack, KeysCount(last.stack) + SigsCount(last.stack) + 3),
                       IF Matchable(SigsOf(last.stack), KeysOf(last.stack))
                       THEN <<1>> ELSE <<0>>)

\* 2-of-3 over [K1, K2, K3] with the valid signatures pushed as
\* [sig(K2), sig(K1)] has given false
C4_Witness ==
    /\ last.sop = OP_CHECKMULTISIG
    /\ last.stack = MultiSigStack(<<Sig(2), Sig(1)>>, 3)
    /\ sigOK = {<<Sig(1), Key(1)>>, <<Sig(2), Key(2)>>}
    /\ CurStack = <<(<<0>>)>>

\* The same signatures pushed as [sig(K1), sig(K2)] have given true
C4_AscendingAccepted ==
    /\ last.sop = OP_CHECKMULTISIG
    /\ last.stack = MultiSigStack(<<Sig(1), Sig(2)>>, 3)
    /\ sigOK = {<<Sig(1), Key(1)>>, <<Sig(2), Key(2)>>}
    /\ CurStack = <<(<<1>>)>>

\* The values a script made only of pushes leaves on an empty stack, bottom
\* first; ok is false when the script holds anything but pushes
IsPush(sop) == sop <= OP_PUSHDATA4 \/ sop = OP_1NEGATE \/ sop \in OP_1..OP_16

RECURSIVE PushedValues(_, _)
PushedValues(script, at) ==
    IF at >= Len(script) THEN [ok |-> TRUE, vals |-> <<>>]
    ELSE LET d == raw_iter(script, at)
         IN  IF ~d.ok \/ ~IsPush(d.sop) THEN [ok |-> FALSE, vals |-> <<>>]
             ELSE LET r == PushedValues(script, d.next)
                      v == IF d.sop <= OP_PUSHDATA4 THEN d.sop_data
                           ELSE bn2vch(d.sop - (OP_1 - 1))
                  IN  [ok |-> r.ok, vals |-> <<v>> \o r.vals]

SigPushes == PushedValues(scriptSig, 0)

\* The redeem script the scriptSig ends with and the pushes before it
RedeemScript == Top(SigPushes.vals, 1)

RedeemArgs == PopN(SigPushes.vals, 1)

\* A finished VerifyScript call of the pay-to-script-hash form
P2SHCall ==
    /\ pc = "done"
    /\ api = "VerifyScript"
    /\ SCRIPT_VERIFY_P2SH \in flags
    /\ SigPushes.ok
    /\ Len(SigPushes.vals) >= 1
    /\ scriptPubKey = P2SHScript(Hash160(RedeemScript))

RedeemGivesTrue ==
    LET r == EvalScript(RedeemArgs, RedeemScript)
    IN  r.err = NoError /\ Len(r.stack) > 0 /\ _CastToBool(Top(r.stack, 1))

\* The scriptSig and then the scriptPubKey evaluate without error
OuterScriptsRun ==
    LET A == EvalScript(<<>>, scriptSig)
        B == EvalScript(A.stack, scriptPubKey)
    IN  A.err = NoError /\ B.err = NoError

\* C5 as stated: a pay-to-script-hash call succeeds iff the redeem script,
\* run on the pushes before it, ends without error on a true top.
C5_RoundTrip ==
    P2SHCall => (raised = NoError <=> RedeemGivesTrue)

\* C5, amended: a pay-to-script-hash call succeeds iff the scriptSig and the
\* scriptPubKey themselves evaluate without error and the redeem script, run
\* on the pushes before it, ends without error on a true top.
C5_RoundTripWhenOuterScriptsRun ==
    P2SHCall => (raised = NoError <=> (OuterScriptsRun /\ RedeemGivesTrue))

\* A redeem script that consumes a pushed argument has been accepted
C5_Witness ==
    /\ P2SHCall
    /\ raised = NoError
    /\ part = "pubKey2"
    /\ Len(RedeemArgs) >= 1
    /\ RedeemScript = <<OP_NOT>>

\* Boolean-false values: empty, all zero bytes, zero bytes ending in 0x80
FalseValue(v) ==
    /\ \A k \in 1..(Len(v) - 1) : v[k] = 0
    /\ v = <<>> \/ v[Len(v)] \in {0, 128}

\* The scriptPubKey has run to its end on the stack the scriptSig left
OuterScriptsDone ==
    /\ pc = "done"
    /\ api = "VerifyScript"
    /\ part = "scriptPubKey"
    /\ ~Handled
    /\ Len(scriptIn) <= MAX_SCRIPT_SIZE
    /\ ip >= Len(scriptIn)
    /\ vfExec = <<>>

\* C6: VerifyScript succeeds only if the stack the scriptSig and then the
\* scriptPubKey leave is non-empty with a true top; an empty stack or a top
\* that is empty, all zero or negative zero is a VerifyScriptError.
C6_FinalTopTrue ==
    /\ (pc = "done" /\ api = "VerifyScript" /\ raised = NoError) =>
            /\ stack = EvalScript(EvalScript(<<>>, scriptSig).stack, scriptPubKey).stack
            /\ Len(stack) > 0
            /\ ~FalseValue(Top(stack, 1))
    /\ (OuterScriptsDone /\ (Len(stack) = 0 \/ FalseValue(Top(stack, 1)))) =>
            raised.cls = "VerifyScriptError"

\* The two scripts left negative zero on top and the call has failed
C6_Witness ==
    /\ OuterScriptsDone
    /\ Len(stack) > 0
    /\ Top(stack, 1) = <<0, 128>>
    /\ raised.cls = "VerifyScriptError"

\* The opcodes of a script, in order
RECURSIVE DecodedOpcodes(_, _)
DecodedOpcodes(script, at) ==
    IF at >= Len(script) THEN <<>>
    ELSE LET d == raw_iter(script, at)
         IN  IF ~d.ok THEN <<>> ELSE <<d.sop>> \o DecodedOpcodes(script, d.next)

Opcodes(script) ==
    IF PayloadFree(script, Len(script)) THEN script ELSE DecodedOpcodes(script, 0)

\* IF and NOTIF minus ENDIF among ops[k..j]
Opened(ops, k, j) ==
    Cardinality({x \in k..j : ops[x] \in {OP_IF, OP_NOTIF}})
        - Cardinality({x \in k..j : ops[x] = OP_ENDIF})

\* Some IF or NOTIF has no matching ENDIF by the end of the script
HasOpenIf(ops) ==
    \E k \in 1..Len(ops) :
        /\ ops[k] \in {OP_IF, OP_NOTIF}
        /\ \A j \in k..Len(ops) : Opened(ops, k, j) > 0

UnterminatedError == Err("EvalScriptError", "Unterminated IF/ELSE block")

\* C7: a script in which some IF or NOTIF has no matching ENDIF never
\* evaluates successfully, and every evaluation that succeeds ends with an
\* empty conditional-flag stack.
C7_OpenIfFails ==
    /\ pc = "return" => (vfExec = <<>> /\ ~HasOpenIf(Opcodes(scriptIn)))
    /\ (pc = "done" /\ raised = NoError /\ api = "EvalScript") => vfExec = <<>>
    /\ raised = UnterminatedError => HasOpenIf(Opcodes(scriptIn))

\* A conditional that was not executed was left open and the run has failed
C7_Witness ==
    /\ raised = UnterminatedError
    /\ vfExec # <<>>
    /\ \A k \in 1..Len(vfExec) : ~vfExec[k]

PushSizeError == Err("EvalScriptError", "PUSHDATA too long")

\* C8: a push whose immediate data is longer than MAX_SCRIPT_ELEMENT_SIZE
\* fails the run with the push-size error, executed or not, and leaves the
\* stacks as it found them; no value that long is ever on the stack.
C8_PushSize ==
    /\ (Handled /\ last.sop <= OP_PUSHDATA4
            /\ Len(last.sop_data) > MAX_SCRIPT_ELEMENT_SIZE) =>
            /\ pc = "done"
            /\ raised = PushSizeError
            /\ CurStack = last.stack
            /\ altstack = last.altstack
    /\ \A k \in 1..Len(CurStack) : Len(CurStack[k]) <= MAX_SCRIPT_ELEMENT_SIZE

\* A push of 521 bytes inside a branch that is not executed has failed
C8_Witness ==
    /\ raised = PushSizeError
    /\ ~last.fExec
    /\ Len(last.sop_data) = MAX_SCRIPT_ELEMENT_SIZE + 1

\* The input names an output of txFrom
Linked ==
    /\ inIdx >= 0
    /\ inIdx < Len(txTo.vin)
    /\ txTo.vin[inIdx + 1].prevout.n >= 0
    /\ txTo.vin[inIdx + 1].prevout.n < Len(txFrom.vout)
    /\ txTo.vin[inIdx + 1].prevout.hash = txFrom.hash

\* C9: VerifySignature raises VerifySignatureError, and evaluates no script,
\* when the input index, the output index or the transaction hash does not
\* link txTo to txFrom; otherwise it ends as VerifyScript ends on the
\* input's scriptSig and the referenced output's scriptPubKey.
C9_Linkage ==
    api = "VerifySignature" =>
        IF Linked
        THEN pc = "done" =>
                raised = VerifyScriptOutcome(
                            txTo.vin[inIdx + 1].scriptSig,
                            txFrom.vout[txTo.vin[inIdx + 1].prevout.n + 1].scriptPubKey,
                            {})
        ELSE /\ evaluated = <<>>
             /\ pc = "done" => raised.cls = "VerifySignatureError"

\* Only the transaction hash was wrong, and the call has failed
C9_Witness ==
    /\ api = "VerifySignature"
    /\ pc = "done"
    /\ raised = Err("VerifySignatureError", "prevout hash does not match txFrom")
    /\ evaluated = <<>>

\* A linked input whose scripts verify
C9_LinkedAccepted ==
    /\ api = "VerifySignature"
    /\ pc = "done"
    /\ Linked
    /\ inIdx > 0
    /\ raised = NoError

\* C10: a call ends by returning or by raising a typed validation failure.
C10_OnlyTypedFailures ==
    raised.cls \in TypedFailures \cup {"none"}


(***************************************************************************)
(* The context of one call                                                 *)
(***************************************************************************)
\* The loop is about to decode the first instruction of a script
AtFirstInstruction == pc = "loop" /\ ip = 0 /\ last = NoInstr

FreshContext == altstack = <<>> /\ vfExec = <<>> /\ nOpCount = 0 /\ pbegincodehash = 0

\* C11: every call of EvalScript starts its loop with an empty alt stack, an
\* empty conditional stack, an opcode count of 0 and a code-separator offset
\* of 0; within VerifyScript the scriptPubKey starts from exactly the stack the
\* scriptSig returns, and the call ends as three evaluations that share
\* nothing but that stack end
C11_FreshContext ==
    /\ AtFirstInstruction => FreshContext
    /\ (AtFirstInstruction /\ part = "scriptPubKey")
            => stack = EvalScript(<<>>, scriptSig).stack
    /\ (api = "VerifyScript" /\ pc = "done")
            => raised = VerifyScriptOutcome(scriptSig, scriptPubKey, flags)

\* C11 witness: the scriptSig moved a value to the alt stack, and the
\* scriptPubKey's FROMALTSTACK found none
C11_Witness ==
    /\ api = "VerifyScript" /\ part = "scriptPubKey" /\ pc = "done"
    /\ Len(evaluated) = 2
    /\ \E i \in 1..Len(scriptSig) : scriptSig[i] = OP_TOALTSTACK
    /\ Handled /\ last.sop = OP_FROMALTSTACK /\ last.altstack = <<>>
    /\ raised.cls = "MissingOpArgumentsError"

\* An IF opened in the scriptSig ends the call before the scriptPubKey runs
C11_OpenIfNotCarried ==
    /\ api = "VerifyScript" /\ part = "scriptSig" /\ pc = "done"
    /\ scriptPubKey = <<OP_ENDIF>>
    /\ raised = UnterminatedError

\* The scriptSig and the scriptPubKey each counted 201 opcodes and the call
\* went on
C11_OwnBudget ==
    /\ api = "VerifyScript" /\ part = "scriptPubKey" /\ pc = "done"
    /\ raised = NoError
    /\ OpcodesAbove16(scriptSig, Len(scriptSig)) = MAX_SCRIPT_OPCODES
    /\ nOpCount = MAX_SCRIPT_OPCODES

\* A redeem script of 201 opcodes ran to its end after a scriptPubKey of 2
C11_OwnBudgetRedeem ==
    /\ api = "VerifyScript" /\ part = "pubKey2" /\ pc = "done"
    /\ raised = NoError
    /\ nOpCount = MAX_SCRIPT_OPCODES


(***************************************************************************)
(* Two interleaved evaluations                                             *)
(***************************************************************************)
\* The locals of thread k's call
CallOf(k) == IF threads.cur = k THEN Own ELSE threads.other

\* What thread k's call gives when nothing else runs
Alone(k) == EvalScript(threads.args[k].stack, threads.args[k].scriptIn)

\* The call is between two instructions of its script and holds values in
\* its own alt stack
Midway(c) ==
    /\ c.pc = "loop" /\ 0 < c.ip /\ c.ip < Len(c.scriptIn)
    /\ c.altstack # <<>>

\* C12: two calls of EvalScript, each with its own stack, interleaved at any
\* instruction: whenever a call has ended, it has raised what it raises and
\* left the stack it leaves when it runs alone
C12_Interleaving ==
    threads.cur # 0 =>
        \A k \in 1..2 :
            CallOf(k).pc = "done" =>
                /\ CallOf(k).raised = Alone(k).err
                /\ CallOf(k).stack = Alone(k).stack

\* C12 witness: one call has ended while the other, started before that,
\* waits in the middle of its script with a value on its own alt stack
C12_Witness ==
    /\ threads.cur # 0
    /\ pc = "done" /\ raised = Alone(threads.cur).err
    /\ Midway(threads.other)

\* Both calls are in the middle of their scripts, with different alt stacks
C12_BothMidway ==
    /\ threads.cur # 0
    /\ Midway(Own) /\ Midway(threads.other)
    /\ altstack # threads.other.altstack


(***************************************************************************)
(* Termination                                                             *)
(***************************************************************************)
\* The evaluations a call still has to start, by where it is
Rank ==
    CASE pc = "done" -> 0
      [] pc = "VerifySignature" -> 5
      [] pc = "VerifyScript" -> 4
      [] part = "scriptSig" -> 3
      [] part = "scriptPubKey" -> 2
      [] OTHER -> 1

\* What the evaluation in progress still has to do: enter, then the bytes of
\* the script not yet decoded, then return
Within ==
    CASE pc = "_EvalScript" -> MAX_SCRIPT_SIZE + 2
      [] pc = "loop" -> Len(scriptIn) - ip + 1
      [] OTHER -> 0

Measure == Rank * (MAX_SCRIPT_SIZE + 3) + Within

\* The multisig instruction just handled got as far as its matching loop
MultiSigLooped ==
    /\ Handled /\ last.fExec
    /\ last.sop \in {OP_CHECKMULTISIG, OP_CHECKMULTISIGVERIFY}
    /\ raised.cls \notin {"MissingOpArgumentsError", "TypeError", "EvalScriptError"}

\* The iterations of the matching loop of the multisig just handled
LoopIterations ==
    LET st == last.stack
        keys_count == _CastToBigNum(Top(st, 1))
        sigs_count == _CastToBigNum(Top(st, 2 + keys_count))
        isig == 3 + keys_count
    IN  MatchIterations(st, DeleteSigs(CodeFrom(scriptIn, pbegincodehash), st, isig, 0, sigs_count),
                        isig, 2, sigs_count, keys_count)

\* C13: every call ends.  Until it has ended some step is possible; every
\* step brings the end nearer, the instruction loop by moving the iterator
\* forward over the instruction it has handled; and the matching loop of
\* CHECKMULTISIG runs its body at most keys_count times
C13_Terminates ==
    /\ [](pc = "done" \/ ENABLED Next)
    /\ [][Measure' < Measure]_vars
    /\ [][(pc = "loop" /\ pc' = "loop") => ip' > ip /\ ip' <= Len(scriptIn)]_vars
    /\ [](MultiSigLooped => LoopIterations <= _CastToBigNum(Top(last.stack, 1)))

\* C13 witness: a call has ended after a CHECKMULTISIG whose matching loop
\* went through all of its three keys
C13_Witness ==
    /\ pc = "done"
    /\ MultiSigLooped
    /\ _CastToBigNum(Top(last.stack, 1)) = 3
    /\ LoopIterations = 3


(***************************************************************************)
(* The kind of a decode error                                              *)
(***************************************************************************)
\* The run ended at a push whose declared length runs past the end of the
\* script
TruncatedPush ==
    /\ Handled /\ pc = "done" /\ raised # NoError
    /\ ~raw_iter(scriptIn, ip).ok

\* The classes of the execution errors: disabled opcode, opcode budget, stack
\* size, unsupported opcode, verify failure, missing arguments
ExecutionErrorKinds ==
    {Err("EvalScriptError", "opcode is disabled").cls, OpCountError.cls,
     StackLimitError.cls, Unsupported(Base).err.cls,
     VerifyOpFailedError.cls, Missing.cls}

\* C14: a push that runs past the end of the script makes the call fail with
\* an error of a class that no execution error has
C14_DecodeErrorKindDistinct ==
    TruncatedPush => raised.cls \notin ExecutionErrorKinds


(***************************************************************************)
(* The bloom filter                                                        *)
(***************************************************************************)
\* C15: whatever has been inserted, contains() is True for every element
\* inserted so far and answered True for the one just asked if it was
\* inserted; an insert clears no bit and changes neither the size of vData
\* nor nHashFuncs
C15_NoFalseNegatives ==
    /\ [](\A e \in asked.inserted : contains(filter, e))
    /\ [](asked.known => asked.answer)
    /\ [][/\ BitsSet(filter.vData) \subseteq BitsSet(filter'.vData)
          /\ Len(filter'.vData) = Len(filter.vData)
          /\ filter'.nHashFuncs = filter.nHashFuncs]_vars

\* C15 witness: a filter of two bytes or more holds two elements, contains()
\* has just said so for one of them, and there is an element it does not
\* contain
C15_Witness ==
    /\ Len(filter.vData) >= 2 /\ filter.nHashFuncs >= 2
    /\ Cardinality(asked.inserted) >= 2
    /\ asked.known /\ asked.answer
    /\ \E e \in Elems : ~contains(filter, e)

\* A filter of one byte has filled up to 0xff and takes the short cut
C15_FullFilter == Full(filter) /\ asked.inserted # {}


(***************************************************************************)
(* Stealth addresses                                                       *)
(***************************************************************************)
\* The layout of a payload: options, scan pubkey, n, n spend pubkeys, m,
\* prefix_length, prefix
SpendCount(s) == s[35]
SpendKey(s, j) == SubSeq(s, 36 + 33 * (j - 1), 35 + 33 * j)
ScanKey(s) == SubSeq(s, 2, 34)
MOf(s) == s[36 + 33 * SpendCount(s)]
PrefixLengthOf(s) == s[37 + 33 * SpendCount(s)]
ReuseBit(s) == s[1] % 2 = 1

\* The payload ends before one of its fields does
Truncated(s) ==
    \/ Len(s) < 35
    \/ Len(s) < 37 + 33 * SpendCount(s)
    \/ Len(s) < 37 + 33 * SpendCount(s) + (PrefixLengthOf(s) + 7) \div 8

\* The spend pubkeys of a complete payload, with the scan pubkey first when
\* the reuse bit is set
AllKeys(s) ==
    (IF ReuseBit(s) THEN <<ScanKey(s)>> ELSE <<>>)
        \o [j \in 1..SpendCount(s) |-> SpendKey(s, j)]

\* A complete payload that breaks a rule of the format
Malformed(s) ==
    \/ ScanKey(s)[1] \notin {2, 3}
    \/ \E j \in 1..SpendCount(s) : SpendKey(s, j)[1] \notin {2, 3}
    \/ \E j \in 1..SpendCount(s) : \E k \in 1..(j - 1) :
            ~BytesLess(SpendKey(s, k), SpendKey(s, j))
    \/ \E j \in 1..Len(AllKeys(s)) : \E k \in 1..(j - 1) : AllKeys(s)[k] = AllKeys(s)[j]
    \/ Len(AllKeys(s)) = 0
    \/ Len(AllKeys(s)) > MAX_SPEND_PUBKEYS
    \/ MOf(s) < 1
    \/ MOf(s) > Len(AllKeys(s))

\* What the claim promises of every address that is constructed
WellFormedAddress(a) ==
    /\ IsSorted(a.spend_pubkeys)
    /\ Cardinality(a.all_spend_pubkeys)
            = Len(a.spend_pubkeys) + (IF a.reuse_scan_for_spend THEN 1 ELSE 0)
    /\ 1 <= Cardinality(a.all_spend_pubkeys)
    /\ Cardinality(a.all_spend_pubkeys) <= MAX_SPEND_PUBKEYS
    /\ 0 < a.m /\ a.m <= Cardinality(a.all_spend_pubkeys)

\* C16: StealthAddress(s) raises StealthAddressError for every payload that
\* is truncated or breaks a rule of the format (invalid pubkey, unsorted or
\* duplicate spend pubkeys with the reused scan pubkey counted, none, more
\* than 15, m out of range), and every address it does construct has sorted
\* spend pubkeys, no duplicates, 1 to 15 of them and 0 < m <= their number
C16_OnlyWellFormedAddresses ==
    address.called =>
        /\ (Truncated(address.payload) \/ Malformed(address.payload))
                => /\ ~address.result.built
                   /\ address.result.err.cls = "StealthAddressError"
        /\ address.result.built => WellFormedAddress(address.result)

\* C16 witness: the payload is complete, its keys are valid and its spend
\* pubkeys sorted and distinct, but one of them is the reused scan pubkey:
\* the call has raised
C16_Witness ==
    /\ address.called /\ ~Truncated(address.payload)
    /\ ReuseBit(address.payload)
    /\ \E j \in 1..SpendCount(address.payload) :
            SpendKey(address.payload, j) = ScanKey(address.payload)
    /\ address.result.err = StealthAddressError("Duplicate spend pubkey")

\* An address of 15 spend pubkeys in all, the scan pubkey among them, is
\* constructed
C16_FifteenKeys ==
    /\ address.called /\ address.result.built
    /\ address.result.reuse_scan_for_spend
    /\ Cardinality(address.result.all_spend_pubkeys) = MAX_SPEND_PUBKEYS
    /\ address.result.m = MAX_SPEND_PUBKEYS

\* Every complete payload that breaks no rule yields an address
C16_AcceptsTheRest ==
    (address.called /\ ~Truncated(address.payload) /\ ~Malformed(address.payload))
        => address.result.built


(***************************************************************************)
(* Unexecuted branches                                                     *)
(***************************************************************************)
\* The instruction just handled was found in an unexecuted branch, on stacks
\* within the size limit
Skipped ==
    /\ Handled
    /\ ~last.fExec
    /\ Len(last.stack) + Len(last.altstack) <= MAX_STACK_ITEMS

ControlFlowOps == {OP_IF, OP_NOTIF, OP_ELSE, OP_ENDIF}

SignatureOps == {OP_CHECKSIG, OP_CHECKSIGVERIFY, OP_CHECKMULTISIG, OP_CHECKMULTISIGVERIFY}

\* Main stack, alt stack and code-separator offset are what the instruction
\* found
ContextUntouched ==
    /\ CurStack = last.stack
    /\ altstack = last.altstack
    /\ pbegincodehash = last.pbegincodehash

\* The checks made before the opcode is looked at: decoding, disabled opcode,
\* push size, opcode budget
ChecksBeforeDispatch ==
    {Err("EvalScriptError", "CScriptInvalidError"),
     Err("EvalScriptError", "opcode is disabled"), PushSizeError, OpCountError}

\* C17: an instruction of an unexecuted branch that is neither control flow
\* nor a signature check leaves the main stack, the alt stack and the
\* code-separator offset as it found them, and the only errors it can raise
\* are those of the disabled-opcode, push-size and opcode-budget checks.
C17_SkippedHasNoEffect ==
    (Skipped /\ last.sop \notin ControlFlowOps \cup SignatureOps)
        => /\ ContextUntouched
           /\ raised \in ChecksBeforeDispatch \cup {NoError}

\* C18: in an unexecuted branch none of CHECKSIG, CHECKSIGVERIFY,
\* CHECKMULTISIG, CHECKMULTISIGVERIFY reads or changes the stack, hashes the
\* transaction for a signature check, or fails the run.
C18_SignatureOpsGated ==
    (Skipped /\ last.sop \in SignatureOps /\ raised # OpCountError)
        => /\ ContextUntouched
           /\ hashed = last.hashed
           /\ raised = NoError


(***************************************************************************)
(* CHECKMULTISIG and CHECKMULTISIGVERIFY, executed                         *)
(***************************************************************************)
\* An executed CHECKMULTISIG or CHECKMULTISIGVERIFY was just handled
MultiSigExecuted ==
    /\ Handled
    /\ last.fExec
    /\ last.sop \in {OP_CHECKMULTISIG, OP_CHECKMULTISIGVERIFY}
    /\ raised # OpCountError

\* The key count at the top of the stack found, when there is a readable one
HasKeysCount == Len(last.stack) >= 1 /\ ~CastOverflow(Top(last.stack, 1))

HasSigsCount ==
    /\ HasKeysCount
    /\ KeysCount(last.stack) \in 0..20
    /\ Len(last.stack) >= 2 + KeysCount(last.stack)
    /\ ~CastOverflow(Top(last.stack, 2 + KeysCount(last.stack)))

\* What CHECKMULTISIG makes of the stack and the script the instruction found
AsCheckMultiSig ==
    _CheckMultiSig(OP_CHECKMULTISIG, CodeFrom(scriptIn, last.pbegincodehash), last.stack)

\* The signatures on the stack found match the keys, in order
MatchingSucceeds ==
    /\ HasSigsCount
    /\ SigsCount(last.stack) \in 0..KeysCount(last.stack)
    /\ Len(last.stack) >= 3 + KeysCount(last.stack) + SigsCount(last.stack)
    /\ AsCheckMultiSig.err = NoError
    /\ Top(AsCheckMultiSig.stack, 1) = <<1>>

\* C19: an executed CHECKMULTISIGVERIFY whose signatures match removes the
\* key count, the keys, the signature count, the signatures and the pad
\* value, pushes nothing, raises nothing and goes on to the next instruction.
C19_VerifySucceedsSilently ==
    (MultiSigExecuted /\ last.sop = OP_CHECKMULTISIGVERIFY /\ MatchingSucceeds)
        => /\ raised = NoError
           /\ CurStack =
                PopN(last.stack, 3 + KeysCount(last.stack) + SigsCount(last.stack))
           /\ pc = "loop"

\* The counts found are out of range: the key count outside 0..20, or the
\* signature count negative or above the key count
CountsOutOfRange ==
    \/ HasKeysCount /\ KeysCount(last.stack) \notin 0..20
    \/ HasSigsCount /\ SigsCount(last.stack) \notin 0..KeysCount(last.stack)

\* C20: an executed CHECKMULTISIG or CHECKMULTISIGVERIFY whose counts are out
\* of range fails with ArgumentsInvalidError and leaves the stack as found.
C20_BadCountsRaiseArgumentsInvalid ==
    (MultiSigExecuted /\ CountsOutOfRange)
        => /\ raised.cls = "ArgumentsInvalidError"
           /\ CurStack = last.stack


\* The number of items an executed multisig takes from the stack it found:
\* the two counts, the keys, the signatures and the pad
Consumed == KeysCount(last.stack) + SigsCount(last.stack) + 3

\* C21: an executed CHECKMULTISIG that does not raise has taken the two
\* counts, the keys, the signatures and the pad from the top of the stack and
\* pushed one boolean, true exactly when the signatures match the keys in
\* order; the items below are as found and the depth is lower by
\* keyCount + sigCount + 2.
C21_MultiSigStackEffect ==
    (MultiSigExecuted /\ last.sop = OP_CHECKMULTISIG /\ raised = NoError)
        => /\ WellFormedMultiSig(last.stack)
           /\ Len(CurStack) = Len(last.stack) - (Consumed - 1)
           /\ PopN(CurStack, 1) = PopN(last.stack, Consumed)
           /\ Top(CurStack, 1) \in {BoolVch(TRUE), BoolVch(FALSE)}
           /\ _CastToBool(Top(CurStack, 1))
                <=> Matchable(SigsOf(last.stack), KeysOf(last.stack))

\* One signature matched against one key, with an item below the pad that is
\* still there
C21_Witness ==
    /\ MultiSigExecuted /\ last.sop = OP_CHECKMULTISIG /\ raised = NoError
    /\ KeysCount(last.stack) = 1 /\ SigsCount(last.stack) = 1
    /\ Len(last.stack) = 6
    /\ CurStack = <<last.stack[1], BoolVch(TRUE)>>

\* A failed matching with more keys than signatures has pushed false
C21_FailedPushesFalse ==
    /\ MultiSigExecuted /\ last.sop = OP_CHECKMULTISIG /\ raised = NoError
    /\ KeysCount(last.stack) = 2 /\ SigsCount(last.stack) = 1
    /\ CurStack = <<BoolVch(FALSE)>>



(***************************************************************************)
(* The VERIFY opcodes                                                      *)
(***************************************************************************)
VerifyOps ==
    {OP_VERIFY, OP_EQUALVERIFY, OP_NUMEQUALVERIFY, OP_CHECKSIGVERIFY,
     OP_CHECKMULTISIGVERIFY}

\* The stack found holds operands the opcode can read
HasOperands(sop, st) ==
    IF sop = OP_VERIFY THEN Len(st) >= 1
    ELSE IF sop = OP_NUMEQUALVERIFY
    THEN Len(st) >= 2 /\ ~CastOverflow(Top(st, 1)) /\ ~CastOverflow(Top(st, 2))
    ELSE IF sop = OP_CHECKMULTISIGVERIFY THEN WellFormedMultiSig(st)
    ELSE Len(st) >= 2

\* The condition the opcode verifies
Condition(sop, st) ==
    IF sop = OP_VERIFY THEN _CastToBool(Top(st, 1))
    ELSE IF sop = OP_EQUALVERIFY THEN Top(st, 1) = Top(st, 2)
    ELSE IF sop = OP_NUMEQUALVERIFY THEN vch2bn(Top(st, 1)) = vch2bn(Top(st, 2))
    ELSE IF sop = OP_CHECKSIGVERIFY
    THEN Len(Top(st, 2)) > 0 /\ <<Top(st, 2), Top(st, 1)>> \in sigOK
    ELSE Matchable(SigsOf(st), KeysOf(st))

\* An executed VERIFY opcode was just handled on operands it can read
VerifyExecuted ==
    /\ Handled
    /\ last.fExec
    /\ last.sop \in VerifyOps
    /\ raised # OpCountError
    /\ HasOperands(last.sop, last.stack)

\* C22: an executed VERIFY, EQUALVERIFY, NUMEQUALVERIFY, CHECKSIGVERIFY or
\* CHECKMULTISIGVERIFY whose condition is false fails the run with a verify
\* failure on the stack it found; the stack has changed only if the condition
\* was true.
C22_FailedVerifyKeepsStack ==
    VerifyExecuted
        => /\ ~Condition(last.sop, last.stack)
                => /\ raised.cls = VerifyOpFailedError.cls
                   /\ pc = "done"
                   /\ CurStack = last.stack
           /\ CurStack # last.stack => Condition(last.sop, last.stack)

\* NUMEQUALVERIFY has failed on two different numbers, both still on the stack
C22_Witness ==
    /\ VerifyExecuted
    /\ last.sop = OP_NUMEQUALVERIFY
    /\ ~Condition(last.sop, last.stack)
    /\ raised.cls = VerifyOpFailedError.cls
    /\ Len(CurStack) >= 2

\* CHECKMULTISIGVERIFY has failed with its keys and signatures on the stack
C22_MultiSigVerifyFailed ==
    /\ VerifyExecuted
    /\ last.sop = OP_CHECKMULTISIGVERIFY
    /\ SigsCount(last.stack) > 0
    /\ raised.cls = VerifyOpFailedError.cls
    /\ CurStack = last.stack

\* CHECKSIGVERIFY has failed with the signature and the key on the stack
C22_CheckSigVerifyFailed ==
    /\ VerifyExecuted
    /\ last.sop = OP_CHECKSIGVERIFY
    /\ raised.cls = VerifyOpFailedError.cls
    /\ CurStack = last.stack



(***************************************************************************)
(* The 4-byte cap of the arithmetic opcodes                                *)
(***************************************************************************)
ArithOps == ISA_UNOP \cup ISA_BINOP \cup {OP_WITHIN, OP_PICK, OP_ROLL}

\* How many items from the top the opcode reads as numbers
NumOperands(sop) ==
    IF sop \in ISA_BINOP THEN 2 ELSE IF sop = OP_WITHIN THEN 3 ELSE 1

\* How many items the opcode needs on the stack
ArgsNeeded(sop) == IF sop \in {OP_PICK, OP_ROLL} THEN 2 ELSE NumOperands(sop)

\* An executed arithmetic opcode was just handled on a stack deep enough
ArithExecuted ==
    /\ Handled
    /\ last.fExec
    /\ last.sop \in ArithOps
    /\ raised # OpCountError
    /\ Len(last.stack) >= ArgsNeeded(last.sop)
    /\ Len(last.stack) + Len(last.altstack) <= MAX_STACK_ITEMS

LongOperand ==
    \E k \in 1..NumOperands(last.sop) : Len(Top(last.stack, k)) > nMaxNumSize

\* C23: an executed arithmetic opcode raises the overflow error exactly when
\* one of the numbers it reads is longer than 4 bytes; on operands of up to
\* 4 bytes it succeeds whatever the length of its result (NUMEQUALVERIFY and
\* the index check of PICK and ROLL apart), so ADD of two 4-byte numbers can
\* push 5 bytes.
C23_CapOnOperandsOnly ==
    ArithExecuted
        => /\ raised = Overflow <=> LongOperand
           /\ (~LongOperand /\ last.sop \notin {OP_NUMEQUALVERIFY, OP_PICK, OP_ROLL})
                => raised = NoError /\ pc = "loop"
           /\ (~LongOperand /\ last.sop \in {OP_ADD, OP_SUB, OP_1ADD, OP_1SUB})
                => Len(Top(CurStack, 1)) <= nMaxNumSize + 1

\* ADD of the largest 4-byte number to itself has pushed 2^32 - 2, in 5 bytes
C23_Witness ==
    /\ ArithExecuted
    /\ last.sop = OP_ADD
    /\ Top(last.stack, 1) = <<255, 255, 255, 127>>
    /\ Top(last.stack, 2) = <<255, 255, 255, 127>>
    /\ raised = NoError
    /\ Top(CurStack, 1) = <<254, 255, 255, 255, 0>>

\* The 5-byte sum was consumed by 1ADD and the run failed there
C23_ConsumedLater ==
    /\ ArithExecuted
    /\ last.sop = OP_1ADD
    /\ scriptIn = <<OP_ADD, OP_1ADD>>
    /\ Top(last.stack, 1) = <<254, 255, 255, 255, 0>>
    /\ raised = Overflow

\* The 5-byte sum was copied by DUP and the run ended without error
C23_NotConsumed ==
    /\ scriptIn = <<OP_ADD, OP_DUP>>
    /\ pc = "done" /\ raised = NoError
    /\ Top(CurStack, 1) = <<254, 255, 255, 255, 128>>



(***************************************************************************)
(* Conditionals                                                            *)
(***************************************************************************)
\* IF or NOTIF was just handled, past the budget check, on stacks within the
\* size limit
IfHandled ==
    /\ Handled
    /\ last.sop \in {OP_IF, OP_NOTIF}
    /\ raised # OpCountError
    /\ Len(last.stack) + Len(last.altstack) <= MAX_STACK_ITEMS

\* The flag an executed IF or NOTIF computes from the top of the stack found
FlagOf(sop, st) == _CastToBool(Top(st, 1)) # (sop = OP_NOTIF)

\* C24: IF and NOTIF push exactly one flag.  Executed, they pop the top of
\* the main stack and push its boolean value (negated for NOTIF), or fail on
\* an empty stack; not executed, they push false and leave the main stack
\* alone.  The instructions that follow are executed exactly when the IF was
\* executed and its flag is true.
C24_IfPushesOneFlag ==
    IfHandled
        => /\ (last.fExec /\ last.stack = <<>>)
                => /\ raised = Missing
                   /\ vfExec = last.vfExec
           /\ (last.fExec /\ last.stack # <<>>)
                => /\ raised = NoError
                   /\ CurStack = PopN(last.stack, 1)
                   /\ vfExec = Append(last.vfExec, FlagOf(last.sop, last.stack))
                   /\ _CheckExec(vfExec) <=> FlagOf(last.sop, last.stack)
           /\ ~last.fExec
                => /\ raised = NoError
                   /\ CurStack = last.stack
                   /\ vfExec = Append(last.vfExec, FALSE)
                   /\ ~_CheckExec(vfExec)
           /\ altstack = last.altstack

\* An executed NOTIF has popped a false value and pushed the flag true
C24_Witness ==
    /\ IfHandled
    /\ last.sop = OP_NOTIF
    /\ last.fExec
    /\ Len(last.stack) = 2
    /\ ~_CastToBool(Top(last.stack, 1))
    /\ vfExec = <<TRUE>>
    /\ Len(CurStack) = 1

\* An IF in an unexecuted branch has pushed false on a non-empty main stack
C24_NestedUnexecuted ==
    /\ IfHandled
    /\ last.sop = OP_IF
    /\ ~last.fExec
    /\ vfExec = <<FALSE, FALSE>>
    /\ CurStack # <<>>


RECURSIVE DecodedIn(_, _, _, _)
DecodedIn(S, script, at, upto) ==
    IF at >= upto THEN 0
    ELSE LET d == raw_iter(script, at)
         IN  IF ~d.ok THEN 0
             ELSE (IF d.sop \in S THEN 1 ELSE 0) + DecodedIn(S, script, d.next, upto)

\* The opcodes of S among the instructions that end at or before offset upto
Processed(S, script, upto) ==
    IF PayloadFree(script, upto)
    THEN Cardinality({k \in 1..upto : script[k] \in S})
    ELSE DecodedIn(S, script, 0, upto)

\* ELSE or ENDIF was just handled, executed or not, past the budget check
ElseOrEndifHandled ==
    /\ Handled
    /\ last.sop \in {OP_ELSE, OP_ENDIF}
    /\ raised # OpCountError
    /\ Len(last.stack) + Len(last.altstack) <= MAX_STACK_ITEMS

\* C25: between instructions the conditional stack is as deep as the number of
\* IF and NOTIF handled minus the number of ENDIF handled.  ELSE inverts the
\* top flag only and ENDIF removes the top flag only, executed or not; on an
\* empty conditional stack either fails the run and leaves stacks, flags and
\* code-separator offset as found.
C25_FlagStackDepth ==
    /\ pc = "loop"
        => /\ Processed({OP_IF, OP_NOTIF}, scriptIn, ip) >= Processed({OP_ENDIF}, scriptIn, ip)
           /\ Len(vfExec) =
                Processed({OP_IF, OP_NOTIF}, scriptIn, ip)
                    - Processed({OP_ENDIF}, scriptIn, ip)
    /\ ElseOrEndifHandled
        => /\ ContextUntouched
           /\ IF last.vfExec = <<>>
              THEN /\ raised.cls = "EvalScriptError"
                   /\ pc = "done"
                   /\ vfExec = <<>>
                   /\ raw_iter(scriptIn, ip).sop = last.sop
              ELSE /\ raised = NoError
                   /\ vfExec =
                        IF last.sop = OP_ELSE
                        THEN SetTop(last.vfExec, 1, ~Top(last.vfExec, 1))
                        ELSE PopN(last.vfExec, 1)

\* An ELSE inside an unexecuted branch has inverted the inner flag and left
\* the outer one
C25_Witness ==
    /\ ElseOrEndifHandled
    /\ last.sop = OP_ELSE
    /\ ~last.fExec
    /\ last.vfExec = <<FALSE, FALSE>>
    /\ vfExec = <<FALSE, TRUE>>

\* An ENDIF with no open IF has failed the run
C25_EndifWithoutIf ==
    /\ ElseOrEndifHandled
    /\ last.sop = OP_ENDIF
    /\ last.vfExec = <<>>
    /\ raised = Err("EvalScriptError", "ENDIF found without prior IF")



(***************************************************************************)
(* Disabled opcodes                                                        *)
(***************************************************************************)
DisabledError == Err("EvalScriptError", "opcode is disabled")

\* The instruction just handled decoded to one of the seventeen opcodes
DisabledHandled ==
    /\ Handled
    /\ last.sop \in {OP_VERIF, OP_VERNOTIF, OP_CAT, OP_SUBSTR, OP_LEFT, OP_RIGHT,
                     OP_INVERT, OP_AND, OP_OR, OP_XOR, OP_2MUL, OP_2DIV, OP_MUL,
                     OP_DIV, OP_MOD, OP_LSHIFT, OP_RSHIFT}

\* C26: a disabled opcode fails the run when the loop reaches it, executed or
\* not, before it is counted against the opcode budget and with stacks,
\* flags and code-separator offset as found; no script that holds one runs
\* to its end.
C26_DisabledFailsAtOnce ==
    /\ DisabledHandled
        => /\ raised = DisabledError
           /\ pc = "done"
           /\ ContextUntouched
           /\ vfExec = last.vfExec
           /\ nOpCount = OpcodesAbove16(scriptIn, ip)
           /\ raw_iter(scriptIn, ip).sop = last.sop
    /\ pc = "return" => Processed(disabled_opcodes, scriptIn, Len(scriptIn)) = 0
    /\ raised = DisabledError => DisabledHandled

\* VERIF inside an unexecuted branch has failed the run
C26_Witness ==
    /\ DisabledHandled
    /\ last.sop = OP_VERIF
    /\ ~last.fExec
    /\ raised = DisabledError

\* CAT as the opcode that would exceed the budget has failed as disabled
C26_BeforeBudget ==
    /\ DisabledHandled
    /\ last.sop = OP_CAT
    /\ nOpCount = MAX_SCRIPT_OPCODES
    /\ raised = DisabledError



(***************************************************************************)
(* Empty signatures                                                        *)
(***************************************************************************)
\* An executed CHECKSIG was just handled on a stack whose signature is empty
CheckSigOnEmpty ==
    /\ Handled
    /\ last.fExec
    /\ last.sop = OP_CHECKSIG
    /\ raised # OpCountError
    /\ Len(last.stack) >= 2
    /\ Len(last.stack) + Len(last.altstack) <= MAX_STACK_ITEMS
    /\ Top(last.stack, 2) = <<>>

\* An executed CHECKMULTISIG was just handled on well-formed arguments
MultiSigOnWellFormed ==
    /\ MultiSigExecuted
    /\ last.sop = OP_CHECKMULTISIG
    /\ WellFormedMultiSig(last.stack)
    /\ Len(last.stack) + Len(last.altstack) <= MAX_STACK_ITEMS

\* The signature the matching loop tries first, the one nearest the top
FirstTried == Top(last.stack, KeysCount(last.stack) + 3)

\* C27: an empty signature checks as false without a signature hash being
\* computed and without failing the run.  An executed CHECKSIG on an empty
\* signature replaces signature and key by false and the run goes on; a
\* CHECKMULTISIG with an empty signature among its signatures gives false,
\* and computes no hash when the first signature it tries is the empty one.
C27_EmptySignatureIsFalse ==
    /\ CheckSigOnEmpty
        => /\ raised = NoError
           /\ pc = "loop"
           /\ PopN(CurStack, 1) = PopN(last.stack, 2)
           /\ ~_CastToBool(Top(CurStack, 1))
           /\ hashed = last.hashed
    /\ (MultiSigOnWellFormed /\ \E j \in 1..SigsCount(last.stack) : SigsOf(last.stack)[j] = <<>>)
        => /\ raised = NoError
           /\ pc = "loop"
           /\ ~_CastToBool(Top(CurStack, 1))
           /\ FirstTried = <<>> => hashed = last.hashed

\* CHECKSIG has replaced an empty signature and a key by false
C27_Witness ==
    /\ CheckSigOnEmpty
    /\ last.stack = <<(<<>>), (<<>>), Key(1)>>
    /\ CurStack = <<(<<>>), BoolVch(FALSE)>>
    /\ hashed = {}

\* CHECKMULTISIG has given false on an empty signature tried first, with a
\* signed one behind it, and hashed nothing
C27_MultiSigEmptyFirst ==
    /\ MultiSigOnWellFormed
    /\ SigsCount(last.stack) = 2
    /\ FirstTried = <<>>
    /\ SigsOf(last.stack)[1] = Sig(1)
    /\ CurStack = <<BoolVch(FALSE)>>
    /\ hashed = {}

\* The same signatures in the other order: the signed one was tried first and
\* hashed
C27_MultiSigEmptyLast ==
    /\ MultiSigOnWellFormed
    /\ SigsCount(last.stack) = 2
    /\ FirstTried = Sig(1)
    /\ CurStack = <<BoolVch(FALSE)>>
    /\ hashed # {}



(***************************************************************************)
(* The P2SH snapshot                                                       *)
(***************************************************************************)
InP2SHVerify == api = "VerifyScript" /\ SCRIPT_VERIFY_P2SH \in flags

\* The stack the scriptSig leaves when evaluated on an empty stack
Snapshot == EvalScript(<<>>, scriptSig).stack

\* C28: under the P2SH flag the copy of the stack is what the scriptSig left,
\* all through the evaluation of the scriptPubKey; the redeem script is the top
\* item of that copy, it starts on the items below it, and what it leaves is
\* what evaluating it on exactly those items gives.
C28_SnapshotBeforeScriptPubKey ==
    /\ (InP2SHVerify /\ part = "scriptPubKey") => stackCopy = Snapshot
    /\ (InP2SHVerify /\ part = "pubKey2")
        => /\ Snapshot # <<>>
           /\ scriptIn = Top(Snapshot, 1)
           /\ (pc = "_EvalScript" \/ AtFirstInstruction)
                => stackCopy = PopN(Snapshot, 1)
           /\ pc = "return"
                => stackCopy = EvalScript(PopN(Snapshot, 1), Top(Snapshot, 1)).stack

\* The redeem script starts on the pushed argument of the snapshot while the
\* shared stack holds what the scriptPubKey made of it
C28_Witness ==
    /\ InP2SHVerify
    /\ part = "pubKey2"
    /\ AtFirstInstruction
    /\ Len(stackCopy) = 1
    /\ stack = Append(stackCopy, BoolVch(TRUE))
    /\ Snapshot = Append(stackCopy, scriptIn)

\* The scriptPubKey has changed the shared stack and the copy still is the
\* snapshot
C28_SharedStackChanged ==
    /\ InP2SHVerify
    /\ part = "scriptPubKey"
    /\ pc = "return"
    /\ stack # stackCopy
    /\ Len(stackCopy) = 2



(***************************************************************************)
(* What P2SH refuses                                                       *)
(***************************************************************************)
\* A VerifyScript call under the P2SH flag on a scriptPubKey of the form
\* HASH160 <20 bytes> EQUAL has ended
P2SHDone ==
    /\ pc = "done"
    /\ InP2SHVerify
    /\ Len(scriptPubKey) = 23
    /\ scriptPubKey[1] = OP_HASH160 /\ scriptPubKey[2] = 20 /\ scriptPubKey[23] = OP_EQUAL

\* The opcodes that push nothing: OP_RESERVED and all above OP_16
NonPushOps == {OP_RESERVED} \cup {op \in 0..255 : op > OP_16}

HasNonPush(script) == Processed(NonPushOps, script, Len(script)) > 0

\* What the redeem script of the snapshot gives on the items below it
RedeemOutcome == EvalScript(PopN(Snapshot, 1), Top(Snapshot, 1))

\* C29: under the P2SH flag, with a scriptPubKey HASH160 <20 bytes> EQUAL,
\* VerifyScript raises for every scriptSig that holds an opcode other than a
\* push, and raises whenever the redeem script raises, leaves an empty stack
\* or leaves a false top: a call that returns had a push-only scriptSig and a
\* redeem script that ran to a true top.
C29_P2SHRefuses ==
    P2SHDone
        => /\ HasNonPush(scriptSig) => raised # NoError
           /\ raised = NoError
                => /\ Snapshot # <<>>
                   /\ RedeemOutcome.err = NoError
                   /\ RedeemOutcome.stack # <<>>
                   /\ _CastToBool(Top(RedeemOutcome.stack, 1))

\* NOP before the push of the redeem script OP_1: both scripts ran to a true
\* top, the redeem script would succeed, and the call was refused
C29_Witness ==
    /\ P2SHDone
    /\ scriptSig = <<OP_NOP>> \o encode_op_pushdata(<<OP_1>>)
    /\ scriptPubKey = P2SHScript(Hash160(<<OP_1>>))
    /\ part = "scriptPubKey"
    /\ stack = <<BoolVch(TRUE)>>
    /\ RedeemOutcome.err = NoError
    /\ RedeemOutcome.stack = <<bn2vch(1)>>
    /\ raised = Err("VerifyScriptError", "P2SH scriptSig not is_push_only()")

\* A redeem script that left a false top has been refused
C29_RedeemFalse ==
    /\ P2SHDone
    /\ part = "pubKey2"
    /\ RedeemOutcome.err = NoError
    /\ raised = Err("VerifyScriptError", "P2SH inner scriptPubKey returned false")

\* A redeem script that raised has made the call raise
C29_RedeemRaised ==
    /\ P2SHDone
    /\ part = "pubKey2"
    /\ RedeemOutcome.err # NoError
    /\ raised = RedeemOutcome.err



(***************************************************************************)
(* PICK and ROLL                                                           *)
(***************************************************************************)
\* An executed PICK or ROLL was just handled, past the budget check
PickRollExecuted ==
    /\ Handled
    /\ last.fExec
    /\ last.sop \in {OP_PICK, OP_ROLL}
    /\ raised # OpCountError
    /\ Len(last.stack) + Len(last.altstack) <= MAX_STACK_ITEMS

\* The stack found without the index on its top
Below == PopN(last.stack, 1)

\* The index is a number of at most 4 bytes within 0 .. depth - 1 of Below
IndexInRange ==
    /\ last.stack # <<>>
    /\ Len(Top(last.stack, 1)) <= nMaxNumSize
    /\ vch2bn(Top(last.stack, 1)) >= 0
    /\ vch2bn(Top(last.stack, 1)) < Len(Below)

\* The position in Below of the item the index names, counted from the bottom
Named == Len(Below) - vch2bn(Top(last.stack, 1))

\* Below with the named item taken out and put on top
Moved ==
    [k \in 1..Len(Below) |->
        IF k < Named THEN Below[k]
        ELSE IF k < Len(Below) THEN Below[k + 1]
        ELSE Below[Named]]

\* C30: an executed PICK or ROLL fails unless the index it pops is at least 0
\* and less than the depth of the stack below it; otherwise PICK leaves the
\* stack below with a copy of the named item on top, and ROLL leaves it with
\* the named item moved to the top and the others in their order.
C30_PickRoll ==
    PickRollExecuted
        => IF IndexInRange
           THEN /\ raised = NoError
                /\ pc = "loop"
                /\ CurStack =
                     IF last.sop = OP_PICK THEN Append(Below, Below[Named]) ELSE Moved
           ELSE /\ raised.cls \in {"EvalScriptError", "MissingOpArgumentsError"}
                /\ pc = "done"

\* ROLL with index 2 has brought the bottom of three items to the top
C30_Witness ==
    /\ PickRollExecuted
    /\ last.sop = OP_ROLL
    /\ last.stack = <<(<<1>>), (<<2>>), (<<3>>), (<<2>>)>>
    /\ CurStack = <<(<<2>>), (<<3>>), (<<1>>)>>

\* PICK with index 1 has copied the middle item
C30_PickCopies ==
    /\ PickRollExecuted
    /\ last.sop = OP_PICK
    /\ last.stack = <<(<<1>>), (<<2>>), (<<3>>), (<<1>>)>>
    /\ CurStack = <<(<<1>>), (<<2>>), (<<3>>), (<<2>>)>>

\* An index equal to the depth below it has failed the run
C30_IndexTooFar ==
    /\ PickRollExecuted
    /\ last.stack = <<(<<1>>), (<<2>>), (<<3>>), (<<3>>)>>
    /\ raised = Err("EvalScriptError", "Argument out of bounds")


(***************************************************************************)
(* The script that is hashed                                               *)
(***************************************************************************)
\* The offsets (1-based) at which the bytes pat occur in s
Occurrences(s, pat) ==
    {i \in 1..(Len(s) - Len(pat) + 1) : SubSeq(s, i, i + Len(pat) - 1) = pat}

\* The occurrences a single scan from the left removes: every occurrence
\* that does not overlap a removed one before it
Removed(s, pat) ==
    CHOOSE D \in SUBSET Occurrences(s, pat) :
        \A i \in Occurrences(s, pat) :
            i \in D <=> ~\E j \in D : j < i /\ i < j + Len(pat)

\* s with the removed occurrences of pat cut out, the other bytes in order
Without(s, pat) ==
    LET D == Removed(s, pat)
        Kept == {k \in 1..Len(s) : ~\E j \in D : j <= k /\ k < j + Len(pat)}
    IN  [m \in 1..Cardinality(Kept) |->
            s[CHOOSE k \in Kept : Cardinality({x \in Kept : x < k}) = m - 1]]

\* The canonical pushes of the signatures sigs cut out one after the other
RECURSIVE WithoutAll(_, _)
WithoutAll(s, sigs) ==
    IF sigs = <<>> THEN s
    ELSE WithoutAll(Without(s, encode_op_pushdata(Head(sigs))), Tail(sigs))

\* The executing script from the byte recorded by the last CODESEPARATOR on
CodeFound == SubSeq(scriptIn, last.pbegincodehash + 1, Len(scriptIn))

\* A signature opcode was just handled by its code
SigOpRun ==
    /\ Handled
    /\ last.sop \in SignatureOps
    /\ raised \notin {OpCountError, StackLimitError}

\* The signatures of a multisig in the order of their deletion, the one
\* nearest the top first
SigsTopDown(st) == [k \in 1..SigsCount(st) |-> Top(st, KeysCount(st) + 2 + k)]

\* The one script a signature opcode may hand to the signature hash
ToBeHashed ==
    IF last.sop \in {OP_CHECKSIG, OP_CHECKSIGVERIFY}
    THEN Without(CodeFound, encode_op_pushdata(Top(last.stack, 2)))
    ELSE WithoutAll(CodeFound, SigsTopDown(last.stack))

\* The arguments of the signature opcode are all on the stack it found
SigArgsPresent ==
    IF last.sop \in {OP_CHECKSIG, OP_CHECKSIGVERIFY}
    THEN Len(last.stack) >= 2
    ELSE WellFormedMultiSig(last.stack)

\* The signature the opcode checks first
FirstSig ==
    IF last.sop \in {OP_CHECKSIG, OP_CHECKSIGVERIFY}
    THEN Top(last.stack, 2)
    ELSE Top(last.stack, KeysCount(last.stack) + 3)

\* The pushes of sig that are not the canonical one
NonCanonicalPushes(sig) ==
    {<<OP_PUSHDATA1, Len(sig)>> \o sig, <<OP_PUSHDATA2, Len(sig), 0>> \o sig,
     <<OP_PUSHDATA4, Len(sig), 0, 0, 0>> \o sig}

\* The signatures the opcode cuts from the script
SigsCut ==
    IF last.sop \in {OP_CHECKSIG, OP_CHECKSIGVERIFY}
    THEN {Top(last.stack, 2)}
    ELSE {SigsTopDown(last.stack)[k] : k \in 1..SigsCount(last.stack)}

\* The only script the opcode hashes is the executing script from the last
\* executed CODESEPARATOR on, from which the canonical push of every
\* signature has been cut by one scan over its bytes, and a script without
\* the pattern is hashed as it is
HashedAfterOneScan ==
    /\ last.pbegincodehash = 0 \/ scriptIn[last.pbegincodehash + 1] = OP_CODESEPARATOR
    /\ ~SigArgsPresent => hashed = last.hashed
    /\ SigArgsPresent =>
        /\ hashed \in {last.hashed, last.hashed \cup {ToBeHashed}}
        /\ (last.sop \in {OP_CHECKSIG, OP_CHECKSIGVERIFY} /\ FirstSig # <<>>
            /\ (last.fExec \/ last.sop = OP_CHECKSIGVERIFY))
                => ToBeHashed \in hashed
        /\ (last.sop \in {OP_CHECKMULTISIG, OP_CHECKMULTISIGVERIFY}
            /\ SigsCount(last.stack) > 0 /\ FirstSig # <<>>
            /\ (last.fExec \/ last.sop = OP_CHECKMULTISIGVERIFY))
                => ToBeHashed \in hashed
        /\ (\A sig \in SigsCut : Occurrences(CodeFound, encode_op_pushdata(sig)) = {})
            => ToBeHashed = CodeFound

\* A push of a signature under another encoding is still in what is hashed
NonCanonicalKept ==
    SigArgsPresent =>
        \A h \in hashed \ last.hashed : \A sig \in SigsCut \ {<<>>} :
            \A enc \in NonCanonicalPushes(sig) :
                Occurrences(CodeFound, enc) # {} => Occurrences(h, enc) # {}

\* C31: the only script a signature opcode hashes is the executing script
\* from the last executed CODESEPARATOR on, from which every occurrence of
\* the canonical push of the signature has been cut (CHECKMULTISIG cuts the
\* pushes of all its signatures before it checks any); a script without the
\* pattern is hashed as it is, and a signature that the script pushes under
\* a non-canonical encoding is not removed.
C31_HashedScript == SigOpRun => (HashedAfterOneScan /\ NonCanonicalKept)


(***************************************************************************)
(* Depth checks                                                            *)
(***************************************************************************)
\* The items an opcode needs on the main stack (the multisig opcodes apart)
Needs(sop) ==
    IF sop = OP_2ROT THEN 6
    ELSE IF sop \in {OP_2OVER, OP_2SWAP} THEN 4
    ELSE IF sop \in {OP_3DUP, OP_ROT, OP_WITHIN} THEN 3
    ELSE IF sop \in ISA_BINOP
                \cup {OP_2DROP, OP_2DUP, OP_NIP, OP_OVER, OP_SWAP, OP_TUCK, OP_PICK,
                      OP_ROLL, OP_EQUAL, OP_EQUALVERIFY, OP_CHECKSIG, OP_CHECKSIGVERIFY}
    THEN 2
    ELSE IF sop \in ISA_UNOP \cup HashOps
                \cup {OP_IF, OP_NOTIF, OP_VERIFY, OP_TOALTSTACK, OP_IFDUP, OP_DROP,
                      OP_DUP, OP_SIZE}
    THEN 1
    ELSE 0

\* An executed opcode was just handled by its own code
OpcodeExecuted ==
    /\ Handled
    /\ last.fExec
    /\ last.sop > OP_16
    /\ raised \notin ChecksBeforeDispatch

\* The stack found holds fewer items than the multisig opcode needs: its
\* key count or, with a key count in range, the keys and the signature count
\* or, with both counts in range, the signatures and the pad
MultiSigShort ==
    /\ last.sop \in {OP_CHECKMULTISIG, OP_CHECKMULTISIGVERIFY}
    /\ \/ Len(last.stack) < 1
       \/ /\ HasKeysCount
          /\ KeysCount(last.stack) \in 0..20
          /\ Len(last.stack) < 2 + KeysCount(last.stack)
       \/ /\ HasSigsCount
          /\ SigsCount(last.stack) \in 0..KeysCount(last.stack)
          /\ Len(last.stack) < 3 + KeysCount(last.stack) + SigsCount(last.stack)

\* The opcode found fewer items than it needs
Shortfall ==
    \/ Len(last.stack) < Needs(last.sop)
    \/ last.sop = OP_FROMALTSTACK /\ Len(last.altstack) < 1
    \/ MultiSigShort

\* The run has failed for missing arguments with both stacks as found
FailedForMissing ==
    /\ raised.cls = "MissingOpArgumentsError"
    /\ pc = "done"
    /\ CurStack = last.stack
    /\ altstack = last.altstack

\* C32: an executed opcode that finds fewer items than it needs on the main
\* stack (on the alt stack for FROMALTSTACK; fewer than 3 + keyCount +
\* sigCount for the multisig opcodes) fails with a missing-arguments error
\* and both stacks as found; an opcode that went through had all its items,
\* so none reads or pops below the bottom of a stack.
C32_DepthCheckedFirst ==
    OpcodeExecuted =>
        /\ Shortfall => FailedForMissing
        /\ raised = NoError =>
            /\ ~Shortfall
            /\ last.sop \in {OP_CHECKMULTISIG, OP_CHECKMULTISIGVERIFY}
                => WellFormedMultiSig(last.stack)
            /\ Len(CurStack) >= Len(last.stack)
                    - (IF last.sop \in {OP_CHECKMULTISIG, OP_CHECKMULTISIGVERIFY}
                       THEN Consumed ELSE Needs(last.sop))


(***************************************************************************)
(* The P2SH redemption step                                                *)
(***************************************************************************)
\* VerifyScript is about to take the redeem script: both scripts have been
\* evaluated, the top of the stack is true, the flag is set, the scriptPubKey
\* is HASH160 <20 bytes> EQUAL and the scriptSig is push-only
AtRedemptionStep ==
    /\ pc = "return"
    /\ part = "scriptPubKey"
    /\ raised = NoError
    /\ Len(stack) > 0
    /\ _CastToBool(Top(stack, 1))
    /\ SCRIPT_VERIFY_P2SH \in flags
    /\ is_p2sh(scriptPubKey)
    /\ is_push_only(scriptSig)

AssertionFailed == Err("AssertionError", "assert len(stackCopy)")

\* C33: when VerifyScript reaches the P2SH redemption step the snapshot holds
\* at least one item, so "assert len(stackCopy)" never fails and there is a
\* redeem script to pop.
C33_SnapshotNonEmpty ==
    /\ AtRedemptionStep => Len(stackCopy) > 0
    /\ raised # AssertionFailed

\* The redemption step is reached with the redeem script and one argument in
\* the snapshot
C33_Witness ==
    /\ AtRedemptionStep
    /\ Len(stackCopy) = 2
    /\ stack = <<stackCopy[1], BoolVch(TRUE)>>

\* An empty scriptSig under P2SH: the snapshot is empty and HASH160 has
\* failed for a missing argument
C33_EmptyScriptSig ==
    /\ InP2SHVerify
    /\ is_p2sh(scriptPubKey)
    /\ scriptSig = <<>>
    /\ part = "scriptPubKey"
    /\ stackCopy = <<>>
    /\ last.sop = OP_HASH160
    /\ raised.cls = "MissingOpArgumentsError"


(***************************************************************************)
(* VerifySignature and P2SH                                                *)
(***************************************************************************)
\* The scripts VerifySignature hands to VerifyScript
SpentScriptSig == txTo.vin[inIdx + 1].scriptSig

SpentScriptPubKey == txFrom.vout[txTo.vin[inIdx + 1].prevout.n + 1].scriptPubKey

\* What running sig on an empty stack and then pub on what it leaves gives:
\* the failure of either run, an empty or false final stack, or success
RunBoth(sig, pub) ==
    LET A == EvalScript(<<>>, sig)
        B == EvalScript(A.stack, pub)
    IN  IF A.err # NoError THEN A.err
        ELSE IF B.err # NoError THEN B.err
        ELSE IF Len(B.stack) = 0
        THEN Err("VerifyScriptError", "scriptPubKey left an empty stack")
        ELSE IF ~_CastToBool(Top(B.stack, 1))
        THEN Err("VerifyScriptError", "scriptPubKey returned false")
        ELSE NoError

\* VerifySignature has ended on an input linked to an output of the form
\* HASH160 <20 bytes> EQUAL
SignatureOnP2SHDone ==
    /\ api = "VerifySignature"
    /\ pc = "done"
    /\ Linked
    /\ is_p2sh(SpentScriptPubKey)

\* C34: VerifySignature calls VerifyScript with no flag, so the P2SH rule is
\* never applied through it: at most the scriptSig and the scriptPubKey are
\* evaluated, never a redeem script, no scriptSig is refused for not being
\* push-only, and on an output HASH160 <hash> EQUAL the call ends as running
\* the scriptSig and then the scriptPubKey ends.
C34_NoP2SHThroughVerifySignature ==
    api = "VerifySignature" =>
        /\ pc # "VerifySignature" => flags = {}
        /\ part # "pubKey2"
        /\ Len(evaluated) <= 2
        /\ \A k \in 1..Len(evaluated) :
                evaluated[k] = IF k = 1 THEN scriptSig ELSE scriptPubKey
        /\ raised # Err("VerifyScriptError", "P2SH scriptSig not is_push_only()")
        /\ SignatureOnP2SHDone => raised = RunBoth(SpentScriptSig, SpentScriptPubKey)

\* The scriptSig pushes the committed redeem script, which leaves false:
\* VerifySignature accepts what VerifyScript under the P2SH flag refuses
C34_Witness ==
    /\ SignatureOnP2SHDone
    /\ raised = NoError
    /\ is_push_only(SpentScriptSig)
    /\ evaluated = <<SpentScriptSig, SpentScriptPubKey>>
    /\ VerifyScriptOutcome(SpentScriptSig, SpentScriptPubKey, {SCRIPT_VERIFY_P2SH})
            = Err("VerifyScriptError", "P2SH inner scriptPubKey returned false")

\* A scriptSig that is not push-only is accepted
C34_NonPushAccepted ==
    /\ SignatureOnP2SHDone
    /\ raised = NoError
    /\ ~is_push_only(SpentScriptSig)


(***************************************************************************)
(* Decoding is interleaved with execution                                  *)
(***************************************************************************)
DecodeError == Err("EvalScriptError", "CScriptInvalidError")

\* The stack the script in progress was started on, for the scripts that
\* VerifyScript runs
StartStack ==
    IF part = "scriptSig" THEN <<>>
    ELSE IF part = "scriptPubKey" THEN EvalScript(<<>>, scriptSig).stack
    ELSE PopN(EvalScript(<<>>, scriptSig).stack, 1)

\* What running the instructions before offset ip, and nothing else, gives
PrefixRun ==
    _EvalScriptFrom(SubSeq(scriptIn, 1, ip), 0, 0,
                    [stack |-> StartStack, altstack |-> <<>>, vfExec |-> <<>>,
                     pbegincodehash |-> 0, err |-> NoError, hashed |-> {}])

\* Every instruction before offset ip has run without error (a conditional
\* may still be open) and has left the context that the instruction at ip
\* found
PrefixRanClean ==
    /\ PrefixRun.err \in {NoError, UnterminatedError}
    /\ PrefixRun.stack = last.stack
    /\ PrefixRun.altstack = last.altstack
    /\ PrefixRun.vfExec = last.vfExec

\* The call has failed at the instruction at offset ip
FailedAtInstruction == pc = "done" /\ Handled /\ raised # NoError

\* C35: the failure reported is that of the first failing instruction in
\* byte order.  A failure at an instruction comes after every instruction
\* before it has run without error; the decode error is raised at the offset
\* of a push that runs past the end of the script, only when that offset has
\* been reached, and leaves the caller's stack as the instructions before it
\* have made it.
C35_EarliestFailure ==
    /\ (FailedAtInstruction /\ part # "top") => PrefixRanClean
    /\ raised = DecodeError
        => /\ FailedAtInstruction
           /\ ip < Len(scriptIn)
           /\ ~raw_iter(scriptIn, ip).ok
           /\ CurStack = last.stack
           /\ altstack = last.altstack

\* The scriptSig has pushed two items and then failed to decode: the items
\* are on the caller's stack
C35_Witness ==
    /\ raised = DecodeError
    /\ part = "scriptSig"
    /\ scriptIn = <<OP_1, OP_2, 1>>
    /\ ip = 2
    /\ stack = <<(<<1>>), (<<2>>)>>

\* An instruction before the cut push fails: its failure is reported
C35_EarlierFailureWins ==
    /\ FailedAtInstruction
    /\ scriptIn = <<OP_1, OP_DROP, OP_DROP, 2, 7>>
    /\ ip = 2
    /\ raised = Missing
    /\ ~DecodesFrom(scriptIn, 0)

\* A push cut short inside an unexecuted branch fails the run all the same
C35_UnexecutedBranch ==
    /\ raised = DecodeError
    /\ scriptIn = <<OP_0, OP_IF, OP_DROP, 2, 7>>
    /\ vfExec = <<FALSE>>
    /\ ip = 3

\* EvalScript called directly: CHECKSIG has replaced signature and key on the
\* caller's stack before the decode error
C35_CallerStackChanged ==
    /\ raised = DecodeError
    /\ api = "EvalScript"
    /\ scriptIn = <<OP_CHECKSIG, 2, 2, 5, 6, 5, 6>>
    /\ stack = <<BoolVch(FALSE), (<<2, 5>>)>>


(***************************************************************************)
(* The pointers of the multisig matching                                   *)
(***************************************************************************)
\* The loop is at its head and will run its body
IterationStarts ==
    /\ matching.at = "loop"
    /\ matching.success
    /\ matching.sigs_count > 0

\* The stack is the one _CheckMultiSig was called on
MatchStackAsFound ==
    \/ matching.at = "loop"
    \/ matching.at = "done" /\ raised.cls = "VerifyOpFailedError"

\* C36: for every key count in 0..20 and signature count in 0..keyCount, at
\* the start of every iteration of the matching loop no more signatures than
\* keys are left, the key pointer is on one of the keyCount keys and the
\* signature pointer on one of the sigCount signatures; nothing has been read
\* deeper than the 3 + keyCount + sigCount items whose presence was checked.
C36_MatchingPointers ==
    MatchStackAsFound =>
        LET K == KeysCount(stack)
            S == SigsCount(stack)
        IN  /\ K \in 0..MaxKeysCount /\ S \in 0..K
            /\ Len(stack) >= 3 + K + S
            /\ matching.read \subseteq 1..(3 + K + S)
            /\ IterationStarts =>
                /\ matching.i = 3 + K + S
                /\ matching.sigs_count <= matching.keys_count
                /\ matching.ikey \in 2..(K + 1)
                /\ matching.isig \in (K + 3)..(K + S + 2)
                /\ matching.ikey = 2 + (K - matching.keys_count)
                /\ matching.isig = 3 + K + (S - matching.sigs_count)
                /\ \E j \in 1..K : Top(stack, matching.ikey) = KeysOf(stack)[j]
                /\ \E j \in 1..S : Top(stack, matching.isig) = SigsOf(stack)[j]

\* Twenty keys and twenty signatures, nineteen matched: the last iteration
\* starts with the pointers on the deepest key and the deepest signature
C36_Witness ==
    /\ IterationStarts
    /\ KeysCount(stack) = MaxKeysCount
    /\ SigsCount(stack) = MaxKeysCount
    /\ matching.keys_count = 1
    /\ matching.sigs_count = 1
    /\ matching.ikey = MaxKeysCount + 1
    /\ matching.isig = 2 * MaxKeysCount + 2
    /\ Top(stack, matching.isig) = Sig(1)

\* One signature for twenty keys, nineteen keys tried in vain: the last key
\* is about to be read
C36_LastKey ==
    /\ IterationStarts
    /\ KeysCount(stack) = MaxKeysCount
    /\ SigsCount(stack) = 1
    /\ matching.keys_count = 1
    /\ Top(stack, matching.ikey) = Key(1)
    /\ Len(stack) = MaxKeysCount + 5

\* The loop has stopped with more signatures than keys left
C36_Stopped ==
    /\ matching.at = "loop"
    /\ ~matching.success
    /\ matching.sigs_count > matching.keys_count
    /\ matching.keys_count > 0

====
